---- MODULE Spec2Model ----
(***************************************************************************)
(* The reference-population engine of mongoose.do (population/index.ts):   *)
(* populate, populatePath, populateRef, populateVirtual, fetchDocuments,   *)
(* parsePopulatePath, normalizePopulateOptions, depopulate and the helpers *)
(* they call, as a state machine over a heap of documents.                 *)
(***************************************************************************)
EXTENDS Integers, Sequences, FiniteSets, TLC

\* Largest number of root documents handed to one populate call.
MaxDocs == 2

(***************************************************************************)
(* Values.  A JavaScript value is a tagged record: undefined, null, a      *)
(* string, an ObjectId (an object whose toString() yields its hex text),   *)
(* an array, or a reference to an object on the heap.                      *)
(***************************************************************************)
Undef == [k |-> "undef"]
Null == [k |-> "null"]
S(x) == [k |-> "str", v |-> x]
O(x) == [k |-> "oid", v |-> x]
L(s) == [k |-> "list", items |-> s]
R(i) == [k |-> "ref", at |-> i]

IsNullish(v) == v.k \in {"undef", "null"}

\* JavaScript truthiness of a value (if (populatedValue), if (populateOpt.populate)).
Truthy(v) == ~IsNullish(v) /\ ~(v.k = "str" /\ v.v = "")

\* The result "null" of stringifyId, kept apart from every string.
NoString == [k |-> "null"]

Fields == {"_id", "author", "editor", "reviewers", "ghost", "title",
           "comments", "lastComment", "friend", "post", "user",
           "meta", "meta.author"}

NoFields == [f \in Fields |-> Undef]

\* A heap object: a Document instance (tracked: it has $__.populated and _doc)
\* or a plain record (no tracking map).
Obj(tracked, fs) == [tracked |-> tracked, f |-> fs, populated |-> NoFields]

(***************************************************************************)
(* Pure helpers of population/index.ts                                     *)
(***************************************************************************)
RECURSIVE JoinStrings(_)
JoinStrings(ss) ==
  IF Len(ss) = 0 THEN ""
  ELSE IF Len(ss) = 1 THEN ss[1]
  ELSE ss[1] \o "," \o JoinStrings(Tail(ss))

\* stringifyId: strings pass through, an ObjectId uses toString(), a Document
\* or a plain object yields Object.prototype.toString, an array its join.
RECURSIVE stringifyId(_, _)
stringifyId(h, id) ==
  CASE IsNullish(id) -> NoString
    [] id.k = "str" -> S(id.v)
    [] id.k = "oid" -> S(id.v)
    [] id.k = "ref" -> IF h[id.at].tracked THEN S("[object Document]") ELSE S("[object Object]")
    [] id.k = "list" ->
         S(JoinStrings([i \in 1..Len(id.items) |->
             LET s == stringifyId(h, id.items[i]) IN IF s = NoString THEN "" ELSE s.v]))

\* path.split('.') for the path names in use: one of them is dotted.
Segments(path) == IF path = "meta.author" THEN <<"meta", "author">> ELSE <<path>>

\* The loop of getNestedValue over the parts of a path: a property read on
\* the current value, undefined as soon as that value is null or undefined.
RECURSIVE getNestedParts(_, _, _)
getNestedParts(h, current, parts) ==
  IF parts = << >> THEN current
  ELSE IF IsNullish(current) THEN Undef
  ELSE getNestedParts(h,
         IF current.k = "ref" THEN h[current.at].f[Head(parts)] ELSE Undef,
         Tail(parts))

\* getNestedValue(obj, path)
getNestedValue(h, obj, path) ==
  IF IsNullish(obj) THEN Undef ELSE getNestedParts(h, obj, Segments(path))

\* The loop of setNestedValue over the parts of a path: the parent of the
\* last part is navigated to (a missing one is created as an empty object)
\* and the last part is written when the target is an object.
RECURSIVE setNestedParts(_, _, _, _)
setNestedParts(h, target, parts, value) ==
  IF Len(parts) = 1
    THEN IF target.k = "ref" THEN [h EXCEPT ![target.at].f[parts[1]] = value] ELSE h
  ELSE IF target.k # "ref" THEN h
  ELSE LET next == h[target.at].f[Head(parts)]
           fresh == R(Len(h) + 1)
       IN IF IsNullish(next)
            THEN setNestedParts(
                   Append([h EXCEPT ![target.at].f[Head(parts)] = fresh],
                          [tracked |-> FALSE, f |-> NoFields, populated |-> NoFields]),
                   fresh, Tail(parts), value)
            ELSE setNestedParts(h, next, Tail(parts), value)

\* setNestedValue(obj, path, value)
setNestedValue(h, obj, path, value) ==
  IF IsNullish(obj) THEN h ELSE setNestedParts(h, obj, Segments(path), value)

(***************************************************************************)
(* Schema metadata (SchemaLike), the model registry and the store.         *)
(* Post is the schema of the root documents; User and Comment are the      *)
(* schemas of the two registered models; no model is registered as Ghost.  *)
(***************************************************************************)
NoPath == [has |-> FALSE, ref |-> "none", itemRef |-> "none"]
RefPath(m) == [has |-> TRUE, ref |-> m, itemRef |-> "none"]
ArrayRefPath(m) == [has |-> TRUE, ref |-> "none", itemRef |-> m]
PlainPath == [has |-> TRUE, ref |-> "none", itemRef |-> "none"]

\* schema.path(path)
SchemaPath(schema, path) ==
  CASE schema = "Post" /\ path \in {"author", "editor"} -> RefPath("User")
    [] schema = "Post" /\ path = "reviewers" -> ArrayRefPath("User")
    [] schema = "Post" /\ path = "ghost" -> RefPath("Ghost")
    [] schema = "Post" /\ path = "title" -> PlainPath
    [] schema = "Post" /\ path = "meta.author" -> RefPath("User")
    [] schema = "User" /\ path = "friend" -> RefPath("User")
    [] schema = "User" /\ path = "title" -> PlainPath
    [] schema = "Comment" /\ path = "user" -> RefPath("User")
    [] schema = "Comment" /\ path = "post" -> PlainPath
    [] OTHER -> NoPath

NoVirtual == [has |-> FALSE, ref |-> "none", localField |-> "none",
              foreignField |-> "none", justOne |-> "undef"]

\* schema.virtuals().get(path)
SchemaVirtual(schema, path) ==
  CASE schema = "Post" /\ path = "comments" ->
         [has |-> TRUE, ref |-> "Comment", localField |-> "_id",
          foreignField |-> "post", justOne |-> "undef"]
    [] schema = "Post" /\ path = "lastComment" ->
         [has |-> TRUE, ref |-> "Comment", localField |-> "none",
          foreignField |-> "post", justOne |-> "true"]
    [] schema = "Post" /\ path = "friend" ->
         [has |-> TRUE, ref |-> "User", localField |-> "none",
          foreignField |-> "none", justOne |-> "undef"]
    [] OTHER -> NoVirtual

\* The models the registry holds, each with its schema.
Registered == {"User", "Comment"}

\* getModel(name): _modelRegistry.get(name)
getModel(name) ==
  IF name \in Registered THEN [found |-> TRUE, schema |-> name]
  ELSE [found |-> FALSE, schema |-> "none"]

\* The records of each collection, in store order.  Users are returned as
\* Document instances, comments as plain records.
StoreRecords(model) ==
  CASE model = "User" ->
         << [NoFields EXCEPT !["_id"] = S("a"), !["friend"] = S("c")],
            [NoFields EXCEPT !["_id"] = O("b"), !["friend"] = S("d")],
            [NoFields EXCEPT !["_id"] = S("c"), !["friend"] = O("a")],
            [NoFields EXCEPT !["_id"] = S("d"), !["friend"] = Null] >>
    [] model = "Comment" ->
         << [NoFields EXCEPT !["_id"] = S("k1"), !["post"] = S("p1"), !["user"] = S("a")],
            [NoFields EXCEPT !["_id"] = S("k2"), !["post"] = O("p1"), !["user"] = S("b")],
            [NoFields EXCEPT !["_id"] = S("k3"), !["post"] = S("p2"), !["user"] = S("z")] >>
    [] OTHER -> << >>

StoreTracked(model) == model = "User"

RECURSIVE SelectSeq2(_, _, _)
\* The subsequence of recs whose stringified field lies in strs.
SelectSeq2(recs, field, strs) ==
  IF recs = << >> THEN << >>
  ELSE LET s == stringifyId(<< >>, Head(recs)[field])
           rest == SelectSeq2(Tail(recs), field, strs)
       IN IF s # NoString /\ s.v \in strs THEN <<Head(recs)>> \o rest ELSE rest

\* model.find({ [field]: { $in: strs } }): the matching records of the store.
StoreFind(model, field, strs) ==
  SelectSeq2(StoreRecords(model), field, {strs[i] : i \in 1..Len(strs)})

\* A record passes the match filter merged into the query.
Matches(rec, match) == match.field = "none" \/ rec[match.field] = match.equals

\* model.find({ [field]: { $in: strs }, ...match })
StoreFindMatch(model, field, strs, match) ==
  SelectSeq(StoreFind(model, field, strs), LAMBDA rec : Matches(rec, match))

(***************************************************************************)
(* Population requests (PopulateOptions) and path specifications.          *)
(***************************************************************************)
NoSpec == [k |-> "undefined"]
Str(toks) == [k |-> "string", toks |-> toks]
One(r) == [k |-> "opt", r |-> r]
Many(items) == [k |-> "array", items |-> items]

\* options.match absent, and a match filter { [field]: equals }.
NoMatch == [field |-> "none", equals |-> Undef]
Match(field, equals) == [field |-> field, equals |-> equals]

\* { path }: every other option absent.
Opt(path) ==
  [path |-> path, model |-> "none", populate |-> NoSpec, justOne |-> "undef",
   localField |-> "none", foreignField |-> "none", skip |-> FALSE,
   strictPopulate |-> FALSE, perDocumentLimit |-> 0, transform |-> "none",
   match |-> NoMatch]

\* The options objects a caller builds, by name; populate refers to other
\* objects by name, so an object may (transitively) refer to itself.
Req(r) ==
  CASE r = "author!" -> [Opt("author") EXCEPT !.strictPopulate = TRUE]
    [] r = "ghost!" -> [Opt("ghost") EXCEPT !.strictPopulate = TRUE]
    [] r = "title!" -> [Opt("title") EXCEPT !.strictPopulate = TRUE]
    [] r = "author1" -> [Opt("author") EXCEPT !.justOne = "true"]
    [] r = "authorN" -> [Opt("author") EXCEPT !.justOne = "false"]
    [] r = "reviewers1" -> [Opt("reviewers") EXCEPT !.justOne = "true"]
    [] r = "reviewersN" -> [Opt("reviewers") EXCEPT !.justOne = "false"]
    [] r = "comments1" -> [Opt("comments") EXCEPT !.justOne = "true"]
    [] r = "lastCommentN" -> [Opt("lastComment") EXCEPT !.justOne = "false"]
    [] r = "commentsLim" -> [Opt("comments") EXCEPT !.perDocumentLimit = 1]
    [] r = "xvirt" -> [Opt("comments") EXCEPT !.localField = "_id",
                         !.foreignField = "post", !.model = "Comment"]
    [] r = "xvirt0" -> [Opt("title") EXCEPT !.localField = "_id", !.foreignField = "post"]
    [] r = "xvirt0!" -> [Opt("title") EXCEPT !.localField = "_id",
                           !.foreignField = "post", !.strictPopulate = TRUE]
    [] r = "titleAsUser" -> [Opt("title") EXCEPT !.model = "User"]
    [] r = "authorGhost!" -> [Opt("author") EXCEPT !.model = "Ghost", !.strictPopulate = TRUE]
    [] r = "comments!" -> [Opt("comments") EXCEPT !.model = "Ghost", !.strictPopulate = TRUE]
    [] r = "authorSkip" -> [Opt("author") EXCEPT !.skip = TRUE]
    [] r = "author>friend" -> [Opt("author") EXCEPT !.populate = Str(<<"friend">>)]
    [] r = "reviewers>friend" -> [Opt("reviewers") EXCEPT !.populate = Str(<<"friend">>)]
    [] r = "comments>user" -> [Opt("comments") EXCEPT !.populate = Str(<<"user">>)]
    [] r = "A" -> [Opt("author") EXCEPT !.populate = One("B")]
    [] r = "B" -> [Opt("friend") EXCEPT !.populate = One("A")]
    [] r = "F" -> [Opt("author") EXCEPT !.populate = One("FF")]
    [] r = "FF" -> [Opt("friend") EXCEPT !.populate = Str(<<"friend">>)]
    [] r = "title>friend" -> [Opt("title") EXCEPT !.populate = Str(<<"friend">>)]
    [] r = "authorT" -> [Opt("author") EXCEPT !.transform = "throws"]
    [] r = "authorT!" -> [Opt("author") EXCEPT !.transform = "throws", !.strictPopulate = TRUE]
    [] r = "reviewersT" -> [Opt("reviewers") EXCEPT !.transform = "throws"]
    [] r = "editorT" -> [Opt("editor") EXCEPT !.transform = "throws"]
    [] r = "commentsT" -> [Opt("comments") EXCEPT !.transform = "throws"]
    [] r = "commentsT!" -> [Opt("comments") EXCEPT !.transform = "throws", !.strictPopulate = TRUE]
    [] r = "editorM" -> [Opt("editor") EXCEPT !.match = Match("friend", S("d"))]
    [] r = "commentsM" -> [Opt("comments") EXCEPT !.match = Match("user", S("a"))]
    [] r = "author>friend,editor" -> [Opt("author") EXCEPT !.populate = Str(<<"friend", "editor">>)]
    [] r = "friendSkip" -> [Opt("friend") EXCEPT !.skip = TRUE]
    [] r = "author>friendSkip" -> [Opt("author") EXCEPT !.populate = One("friendSkip")]
    [] r = "xvirt0>user" -> [Opt("title") EXCEPT !.localField = "_id",
                               !.foreignField = "post", !.populate = Str(<<"user">>)]

\* normalizePopulateOptions: a string is split on whitespace and its empty
\* tokens dropped, an array is flattened, anything else is returned as the
\* one element of a list.
RECURSIVE normalizePopulateOptions(_)
normalizePopulateOptions(paths) ==
  CASE paths.k = "string" ->
         LET toks == SelectSeq(paths.toks, LAMBDA t : t # "")
         IN [i \in 1..Len(toks) |-> [k |-> "opt", o |-> Opt(toks[i])]]
    [] paths.k = "array" ->
         LET RECURSIVE Flat(_)
             Flat(items) == IF items = << >> THEN << >>
                            ELSE normalizePopulateOptions(Head(items)) \o Flat(Tail(items))
         IN Flat(paths.items)
    [] paths.k = "opt" -> << [k |-> "opt", o |-> Req(paths.r)] >>
    [] OTHER -> << paths >>

\* A parse that does not look at the request's own local and foreign field.
parsePopulatePathSchemaOnly(path, options, schema) ==
  LET result == [path |-> path, modelName |-> options.model, isArray |-> FALSE,
                 isVirtual |-> FALSE,
                 localField |-> IF options.localField # "none" THEN options.localField ELSE path,
                 foreignField |-> options.foreignField, options |-> options]
      virtual == SchemaVirtual(schema, path)
      schemaPath == SchemaPath(schema, path)
  IN IF schema = "none" THEN result
     ELSE IF virtual.has /\ virtual.foreignField # "none"
       THEN [result EXCEPT
               !.isVirtual = TRUE,
               !.modelName = IF options.model # "none" THEN options.model ELSE virtual.ref,
               !.localField = IF virtual.localField # "none" THEN virtual.localField ELSE "_id",
               !.foreignField = virtual.foreignField]
     ELSE IF schemaPath.has /\ schemaPath.ref # "none"
       THEN [result EXCEPT !.modelName =
               IF options.model # "none" THEN options.model ELSE schemaPath.ref]
     ELSE IF schemaPath.has /\ schemaPath.itemRef # "none"
       THEN [result EXCEPT
               !.modelName = IF options.model # "none" THEN options.model ELSE schemaPath.itemRef,
               !.isArray = TRUE]
     ELSE result

\* parsePopulatePath(path, options, schema)
parsePopulatePath(path, options, schema) ==
  LET result == [path |-> path, modelName |-> options.model, isArray |-> FALSE,
                 isVirtual |-> FALSE,
                 localField |-> IF options.localField # "none" THEN options.localField ELSE path,
                 foreignField |-> options.foreignField, options |-> options]
      virtual == SchemaVirtual(schema, path)
      schemaPath == SchemaPath(schema, path)
  IN IF options.localField # "none" /\ options.foreignField # "none"
       THEN [result EXCEPT !.isVirtual = TRUE]
     ELSE IF schema = "none" THEN result
     ELSE IF virtual.has /\ virtual.foreignField # "none"
       THEN [result EXCEPT
               !.isVirtual = TRUE,
               !.modelName = IF options.model # "none" THEN options.model ELSE virtual.ref,
               !.localField = IF virtual.localField # "none" THEN virtual.localField ELSE "_id",
               !.foreignField = virtual.foreignField,
               !.options = [options EXCEPT !.justOne =
                              IF options.justOne # "undef" THEN options.justOne
                              ELSE virtual.justOne]]
     ELSE IF schemaPath.has /\ schemaPath.ref # "none"
       THEN [result EXCEPT !.modelName =
               IF options.model # "none" THEN options.model ELSE schemaPath.ref]
     ELSE IF schemaPath.has /\ schemaPath.itemRef # "none"
       THEN [result EXCEPT
               !.modelName = IF options.model # "none" THEN options.model ELSE schemaPath.itemRef,
               !.isArray = TRUE]
     ELSE result

(***************************************************************************)
(* populateRef and populateVirtual, split at their one suspension point    *)
(* (the awaited find): what is computed before it and what after it.       *)
(***************************************************************************)
ModelNames == {"User", "Comment", "Ghost"}

\* An array push in place of Set.add: duplicates are kept.
AddUniqueNoDedup(seq, x) == Append(seq, x)

\* Set.add on a Set kept in insertion order.
AddUnique(seq, x) ==
  IF \E i \in 1..Len(seq) : seq[i] = x THEN seq ELSE Append(seq, x)

RECURSIVE AddAllUnique(_, _)
AddAllUnique(seq, xs) ==
  IF xs = << >> THEN seq ELSE AddAllUnique(AddUnique(seq, Head(xs)), Tail(xs))

\* populateRef, first loop: the raw ids of each document (no entry for a
\* document whose value is null or undefined) ...
idsByDoc(h, docs, path, isArray) ==
  [i \in 1..Len(docs) |->
     LET value == getNestedValue(h, docs[i], path)
     IN IF IsNullish(value) THEN Undef
        ELSE L(IF isArray THEN value.items ELSE <<value>>)]

\* ... the string ids of one document's raw ids (null results filtered out) ...
stringIds(h, ids) ==
  LET all == [j \in 1..Len(ids) |-> stringifyId(h, ids[j])]
      kept == SelectSeq(all, LAMBDA s : s # NoString)
  IN [j \in 1..Len(kept) |-> kept[j].v]

\* ... and the distinct string ids over all documents.
RECURSIVE idsToFetch(_, _, _)
idsToFetch(h, byDoc, i) ==
  IF i > Len(byDoc) THEN << >>
  ELSE LET rest == idsToFetch(h, byDoc, i + 1)
           mine == IF byDoc[i] = Undef THEN << >> ELSE stringIds(h, byDoc[i].items)
       IN AddAllUnique(AddAllUnique(<< >>, mine), rest)

\* The ids the model cache does not hold yet.
uncachedIds(ids, modelCache) ==
  SelectSeq(ids, LAMBDA id : id \notin DOMAIN modelCache)

\* populateRef after the fetch: every fetched record with a truthy string
\* id enters the model cache under that id.
RECURSIVE cacheFetched(_, _, _)
cacheFetched(h, modelCache, fetched) ==
  IF fetched = << >> THEN modelCache
  ELSE LET docId == stringifyId(h, getNestedValue(h, Head(fetched), "_id"))
       IN cacheFetched(h,
            IF docId # NoString /\ docId.v # ""
              THEN (docId.v :> Head(fetched)) @@ modelCache
              ELSE modelCache,
            Tail(fetched))

\* A null in the place of every id that has no cached record.
populatedDocsPadded(h, ids, modelCache) ==
  [j \in 1..Len(ids) |->
     LET stringId == stringifyId(h, ids[j])
     IN IF stringId # NoString /\ stringId.v # "" /\ stringId.v \in DOMAIN modelCache
          THEN modelCache[stringId.v] ELSE Null]

\* The cached records of a document's ids, in id order, misses dropped.
RECURSIVE populatedDocs(_, _, _)
populatedDocs(h, ids, modelCache) ==
  IF ids = << >> THEN << >>
  ELSE LET stringId == stringifyId(h, Head(ids))
           rest == populatedDocs(h, Tail(ids), modelCache)
       IN IF stringId # NoString /\ stringId.v # "" /\ stringId.v \in DOMAIN modelCache
            THEN <<modelCache[stringId.v]>> \o rest
            ELSE rest

\* The value populateRef assigns: isArray || justOne === false ? list : first ?? null
finalValueRef(found, isArray, justOne) ==
  IF isArray \/ justOne = "false" THEN L(found)
  ELSE IF justOne = "true" \/ ~isArray
         THEN (IF Len(found) > 0 THEN found[1] ELSE Null)
         ELSE L(found)

\* Tracking that always records the id list, also for a single reference.
trackPopulatedList(h, doc, path, ids, isArray) ==
  IF doc.k = "ref" /\ h[doc.at].tracked
    THEN [h EXCEPT ![doc.at].populated[path] = L(ids)]
    ELSE h

\* internal.populated.set(path, ...) on a document that has a tracking map.
trackPopulated(h, doc, path, ids, isArray) ==
  IF doc.k = "ref" /\ h[doc.at].tracked
    THEN [h EXCEPT ![doc.at].populated[path] =
            IF Len(ids) = 1 /\ ~isArray THEN ids[1] ELSE L(ids)]
    ELSE h

\* A throw of the transform that is caught unless the request is strict.
transformThrowsStrictOnly(options, recs) ==
  options.transform = "throws" /\ recs # << >> /\ options.strictPopulate

\* options.transform(record) throws: a transform that throws is called as
\* soon as there is a record to hand to it.
transformThrows(options, recs) == options.transform = "throws" /\ recs # << >>

\* populateRef, assignment loop over the documents from index i on; a throw
\* of the transform leaves the loop with the earlier documents assigned.
RECURSIVE assignRef(_, _, _, _, _, _)
assignRef(h, docs, byDoc, modelCache, parsed, i) ==
  IF i > Len(docs) THEN h
  ELSE IF byDoc[i] = Undef THEN assignRef(h, docs, byDoc, modelCache, parsed, i + 1)
  ELSE LET ids == byDoc[i].items
           found == populatedDocs(h, ids, modelCache)
           final == finalValueRef(found, parsed.isArray, parsed.options.justOne)
           h1 == setNestedValue(h, docs[i], parsed.path, final)
           h2 == trackPopulated(h1, docs[i], parsed.path, ids, parsed.isArray)
       IN IF transformThrows(parsed.options, found) THEN h
          ELSE assignRef(h2, docs, byDoc, modelCache, parsed, i + 1)

\* The assignment loop of populateRef is left by a throw of the transform.
refThrows(h, docs, byDoc, modelCache, parsed) ==
  \E i \in 1..Len(docs) :
    /\ byDoc[i] # Undef
    /\ transformThrows(parsed.options, populatedDocs(h, byDoc[i].items, modelCache))

\* populateVirtual, first loop: the stringified local value of each document ...
localValuesByDoc(h, docs, localField) ==
  [i \in 1..Len(docs) |-> stringifyId(h, getNestedValue(h, docs[i], localField))]

\* ... and the distinct truthy ones.
RECURSIVE localValues(_, _)
localValues(byDoc, i) ==
  IF i > Len(byDoc) THEN << >>
  ELSE LET rest == localValues(byDoc, i + 1)
       IN IF byDoc[i] # NoString /\ byDoc[i].v # ""
            THEN AddAllUnique(<<byDoc[i].v>>, rest)
            ELSE rest

\* Grouping by the raw foreign value: a key stored as an ObjectId is missed.
docsByForeignValueRaw(h, fetched, foreignField, value) ==
  SelectSeq(fetched, LAMBDA d : getNestedValue(h, d, foreignField) = S(value))

\* docsByForeignValue.get(value): the fetched records whose stringified
\* foreign field is value, in fetch order.
docsByForeignValue(h, fetched, foreignField, value) ==
  SelectSeq(fetched, LAMBDA d :
    LET s == stringifyId(h, getNestedValue(h, d, foreignField))
    IN s # NoString /\ s.v # "" /\ s.v = value)

\* slice(0, perDocumentLimit) when the limit is set and exceeded.
applyPerDocumentLimit(matched, limit) ==
  IF limit # 0 /\ Len(matched) > limit THEN SubSeq(matched, 1, limit) ELSE matched

\* The value populateVirtual assigns: justOne ? first ?? null : list
finalValueVirtual(matched, justOne) ==
  IF justOne = "true" THEN (IF Len(matched) > 0 THEN matched[1] ELSE Null)
  ELSE L(matched)

\* populateVirtual, assignment loop over the documents from index i on; a
\* throw of the transform leaves the loop with the earlier documents assigned.
RECURSIVE assignVirtual(_, _, _, _, _, _)
assignVirtual(h, docs, byDoc, fetched, parsed, i) ==
  IF i > Len(docs) THEN h
  ELSE IF byDoc[i] = NoString \/ byDoc[i].v = ""
         THEN assignVirtual(h, docs, byDoc, fetched, parsed, i + 1)
  ELSE LET matched == applyPerDocumentLimit(
                        docsByForeignValue(h, fetched, parsed.foreignField, byDoc[i].v),
                        parsed.options.perDocumentLimit)
           final == finalValueVirtual(matched, parsed.options.justOne)
       IN IF transformThrows(parsed.options,
                             docsByForeignValue(h, fetched, parsed.foreignField, byDoc[i].v))
            THEN h
          ELSE assignVirtual(setNestedValue(h, docs[i], parsed.path, final),
                             docs, byDoc, fetched, parsed, i + 1)

\* The assignment loop of populateVirtual is left by a throw of the transform.
virtualThrows(h, docs, byDoc, fetched, parsed) ==
  \E i \in 1..Len(docs) :
    /\ byDoc[i] # NoString /\ byDoc[i].v # ""
    /\ transformThrows(parsed.options,
                       docsByForeignValue(h, fetched, parsed.foreignField, byDoc[i].v))

(***************************************************************************)
(* State                                                                   *)
(***************************************************************************)
VARIABLES
  heap,             \* the objects: root documents first, fetched records after
  docs,             \* populate's argument docs (references to the root documents)
  paths,            \* populate's argument paths
  schema,           \* populate's argument schema
  status,           \* "idle", "running", "returned" or "failed" (the promise)
  err,              \* the error being thrown, or "none"
  populateOptions,  \* populate's normalized requests
  pi,               \* populate's position in its for loop
  stack,            \* the activations of populatePath, innermost last
  fetchedDocs,      \* context.fetchedDocs: model name -> string id -> record
  populatingPaths,  \* context.populatingPaths
  finds,            \* every model.find call made, in order
  log,              \* every entry into populatePath, in order
  pre,              \* the heap when populate was called
  undone,           \* the (document, path) pairs depopulate was called for
  plain,            \* the toObject call made and the object it returned
  suspended         \* the populate call that is not running now, if there are two

vars == <<heap, docs, paths, schema, status, err, populateOptions, pi, stack,
          fetchedDocs, populatingPaths, finds, log, pre, undone, plain, suspended>>

(***************************************************************************)
(* Initial states: the root documents and the arguments of the call.       *)
(***************************************************************************)
RichIds == {Null, S("a"), O("a"), S("b"), S("z")}
PoorIds == {Null, S("a"), S("z")}
TinyIds == {S("a"), S("z")}
PairIds == {S("a"), S("b")}
RichLists == {Null, L(<< >>), L(<<S("a")>>), L(<<S("b"), S("a")>>),
              L(<<O("a"), S("z"), S("b")>>), L(<<S("a"), O("a")>>)}
PoorLists == {L(<<S("b"), S("a")>>), L(<<S("z")>>)}
RichKeys == {S("p1"), O("p1"), S("p2"), S("p3"), Null}
PoorKeys == {S("p1"), S("p2")}

\* The values a varied field of a root document is drawn from.
Dom(field, size) ==
  CASE field = "_id" -> IF size = "rich" THEN RichKeys ELSE PoorKeys
    [] field = "reviewers" -> IF size = "rich" THEN RichLists ELSE PoorLists
    [] OTHER -> IF size = "rich" THEN RichIds
                ELSE IF size = "poor" THEN PoorIds
                ELSE IF size = "pair" THEN PairIds ELSE TinyIds

RECURSIVE Fill(_, _, _)
\* Every field map that gives the fields of fs a value of their domain.
Fill(fs, size, base) ==
  IF fs = << >> THEN {base}
  ELSE UNION { Fill(Tail(fs), size, [base EXCEPT ![Head(fs)] = v]) : v \in Dom(Head(fs), size) }

BaseFields == [NoFields EXCEPT !["_id"] = S("p1")]

Sc(spec, fs, size) == [paths |-> spec, fields |-> fs, size |-> size, schema |-> "Post"]

Scenarios ==
  { Sc(Str(<<"author">>), <<"author">>, "rich"),
    Sc(Str(<<"reviewers">>), <<"reviewers">>, "rich"),
    Sc(Str(<<"comments">>), <<"_id">>, "rich"),
    Sc(Str(<<"lastComment">>), <<"_id">>, "poor"),
    Sc(Str(<<"ghost">>), <<"ghost">>, "poor"),
    Sc(Str(<<"title">>), <<"title">>, "poor"),
    Sc(Str(<<"", "author", "", "editor">>), <<"author", "editor">>, "tiny"),
    Sc(Str(<<"ghost", "author">>), <<"ghost", "author">>, "tiny"),
    Sc(Many(<<One("title!"), Str(<<"author">>)>>), <<"title", "author">>, "tiny"),
    Sc(Many(<<Str(<<"author">>), One("authorSkip"), One("xvirt0!")>>), <<"author">>, "poor"),
    Sc(Many(<<Str(<<"author">>), One("ghost!")>>), <<"author", "ghost">>, "tiny"),
    Sc(One("author!"), <<"author">>, "poor"),
    Sc(One("ghost!"), <<"ghost">>, "poor"),
    Sc(One("authorGhost!"), <<"author">>, "poor"),
    Sc(One("comments!"), <<"_id">>, "poor"),
    Sc(One("author1"), <<"author">>, "poor"),
    Sc(One("authorN"), <<"author">>, "poor"),
    Sc(One("reviewers1"), <<"reviewers">>, "poor"),
    Sc(One("reviewersN"), <<"reviewers">>, "poor"),
    Sc(One("comments1"), <<"_id">>, "poor"),
    Sc(One("lastCommentN"), <<"_id">>, "poor"),
    Sc(One("commentsLim"), <<"_id">>, "poor"),
    Sc(One("xvirt"), <<"_id">>, "poor"),
    Sc(One("xvirt0"), <<"_id", "title">>, "tiny"),
    Sc(One("xvirt0!"), <<"_id">>, "poor"),
    Sc(One("xvirt0>user"), <<"_id", "title">>, "tiny"),
    Sc(One("titleAsUser"), <<"title">>, "poor"),
    Sc(One("title>friend"), <<"title">>, "poor"),
    Sc(One("authorSkip"), <<"author">>, "poor"),
    Sc(One("author>friend"), <<"author">>, "rich"),
    Sc(One("reviewers>friend"), <<"reviewers">>, "poor"),
    Sc(One("comments>user"), <<"_id">>, "poor"),
    Sc(One("A"), <<"author">>, "poor"),
    Sc(One("F"), <<"author">>, "poor"),
    Sc(Many(<<One("author>friend"), Str(<<"editor">>)>>), <<"author", "editor">>, "tiny"),
    Sc(One("authorT"), <<"author">>, "poor"),
    Sc(One("authorT!"), <<"author">>, "tiny"),
    Sc(One("reviewersT"), <<"reviewers">>, "poor"),
    Sc(One("commentsT"), <<"_id">>, "poor"),
    Sc(One("commentsT!"), <<"_id">>, "poor"),
    Sc(Many(<<One("authorT"), Str(<<"editor">>)>>), <<"author", "editor">>, "tiny"),
    Sc(Many(<<Str(<<"author">>), One("editorT")>>), <<"author", "editor">>, "tiny"),
    Sc(Str(<<"author", "author">>), <<"author">>, "tiny"),
    Sc(Str(<<"reviewers", "reviewers">>), <<"reviewers">>, "poor"),
    Sc(One("editorM"), <<"editor">>, "pair"),
    Sc(One("commentsM"), <<"_id">>, "poor"),
    Sc(Many(<<Str(<<"author">>), One("editorM")>>), <<"author", "editor">>, "tiny"),
    Sc(Str(<<"friend">>), <<"friend">>, "tiny"),
    Sc(One("author>friend,editor"), <<"author">>, "tiny"),
    Sc(One("author>friendSkip"), <<"author">>, "tiny"),
    Sc(Str(<<"meta.author">>), <<"meta.author">>, "tiny"),
    Sc(NoSpec, <<"author">>, "poor"),
    Sc(Many(<< >>), <<"author">>, "poor"),
    [Sc(Str(<<"author">>), <<"author">>, "poor") EXCEPT !.schema = "none"] }

\* Which of n root documents are Document instances: all of them, none of
\* them, or every other one.
TrackedPatterns(n) ==
  {[i \in 1..n |-> TRUE], [i \in 1..n |-> FALSE], [i \in 1..n |-> i % 2 = 1]}

\* The value drawn for the dotted path "meta.author" is the author of a
\* nested plain object of its own, which the document holds as its meta.
Nested(objs) ==
  LET n == Len(objs)
  IN IF \A i \in 1..n : objs[i].f["meta.author"] = Undef THEN objs
     ELSE [i \in 1..(2 * n) |->
             IF i <= n
               THEN [objs[i] EXCEPT !.f["meta"] = R(n + i), !.f["meta.author"] = Undef]
               ELSE Obj(FALSE, [NoFields EXCEPT !["author"] = objs[i - n].f["meta.author"]])]

\* More than two documents draw their values from the smaller domains.
SizeFor(size, n) == IF n > 2 /\ size = "rich" THEN "poor" ELSE size

\* The heaps of n root documents (with their nested objects behind them).
RootDocs(sc, n) ==
  {Nested([i \in 1..n |-> Obj(tr[i], fs[i])]) :
     tr \in TrackedPatterns(n),
     fs \in [1..n -> Fill(sc.fields, SizeFor(sc.size, n), BaseFields)]}

\* No toObject call yet; no second populate call.
NoPlain == [doc |-> 0, obj |-> Undef, depopulate |-> FALSE]
NoCall == [call |-> 0]

\* The populate call whose steps are being taken: the first, or the other
\* than the suspended one.
Self == IF suspended.call = 0 THEN 1 ELSE 3 - suspended.call

Init ==
  \E sc \in Scenarios, n \in 0..MaxDocs :
    \E ds \in RootDocs(sc, n) :
      /\ heap = ds
      /\ docs = [i \in 1..n |-> R(i)]
      /\ paths = sc.paths
      /\ schema = sc.schema
      /\ status = "idle"
      /\ err = "none"
      /\ populateOptions = << >>
      /\ pi = 1
      /\ stack = << >>
      /\ fetchedDocs = [m \in ModelNames |-> << >>]
      /\ populatingPaths = {}
      /\ finds = << >>
      /\ log = << >>
      /\ pre = ds
      /\ undone = {}
      /\ plain = NoPlain
      /\ suspended = NoCall

(***************************************************************************)
(* populate and populatePath                                               *)
(***************************************************************************)
\* One activation of populatePath(docs, populateOpt, schema, context).
Frame(ds, opt, sch, top) ==
  [docs |-> ds, opt |-> opt, schema |-> sch, top |-> top, pc |-> "enter",
   byDoc |-> << >>, find |-> << >>, di |-> 1, ni |-> 1, sub |-> << >>, res |-> 0,
   fi |-> 0]

Top == stack[Len(stack)]
Pop == SubSeq(stack, 1, Len(stack) - 1)
Parsed(fr) == parsePopulatePath(fr.opt.path, fr.opt, fr.schema)

\* populate up to its for loop: empty input returns at once, otherwise the
\* paths are normalized and a fresh context is created.
populate ==
  /\ status = "idle"
  /\ pre' = heap
  /\ populateOptions' = IF Len(docs) = 0 THEN << >> ELSE normalizePopulateOptions(paths)
  /\ status' = IF Len(populateOptions') = 0 THEN "returned" ELSE "running"
  /\ pi' = 1
  /\ fetchedDocs' = [m \in ModelNames |-> << >>]
  /\ populatingPaths' = {}
  /\ UNCHANGED <<heap, docs, paths, schema, err, stack, finds, log, undone, plain, suspended>>

\* The loop body starts at once, without waiting for populatePath to settle.
awaitedNever(activations) == TRUE

\* await populatePath(...): the loop goes on when the call has settled.
awaited(activations) == activations = << >>

\* One iteration of populate's for loop (or its end): a request with
\* skip === true is passed over, any other is handed to populatePath.
populateLoop ==
  /\ status = "running" /\ awaited(stack) /\ err = "none"
  /\ IF pi > Len(populateOptions)
       THEN status' = "returned" /\ UNCHANGED <<pi, stack, err>>
     ELSE IF populateOptions[pi].k # "opt"
       THEN err' = "TypeError" /\ status' = "failed" /\ UNCHANGED <<pi, stack>>
     ELSE IF populateOptions[pi].o.skip
       THEN pi' = pi + 1 /\ UNCHANGED <<status, stack, err>>
     ELSE /\ stack' = Append(stack, Frame(docs, populateOptions[pi].o, schema, pi))
          /\ pi' = pi + 1
          /\ UNCHANGED <<status, err>>
  /\ UNCHANGED <<heap, docs, paths, schema, populateOptions, fetchedDocs,
                 populatingPaths, finds, log, pre, undone, plain, suspended>>

\* What one resolution does before it suspends or finishes.
Outcome(pc, e, h, byDoc, find, ids, unc) ==
  [pc |-> pc, err |-> e, heap |-> h, byDoc |-> byDoc, find |-> find, ids |-> ids,
   uncached |-> unc]

\* fetchDocuments up to model.find: a missing model throws under
\* strictPopulate and yields no records otherwise.
\* populateRef up to the fetch.
resolveRef(h, fr, parsed, cache) ==
  LET byDoc == idsByDoc(h, fr.docs, parsed.path, parsed.isArray)
      ids == idsToFetch(h, byDoc, 1)
      modelCache == cache[parsed.modelName]
      unc == uncachedIds(ids, modelCache)
  IN IF ids = << >> THEN Outcome("nested", "none", h, byDoc, << >>, ids, << >>)
     ELSE IF unc = << >>
            \/ (~getModel(parsed.modelName).found /\ ~parsed.options.strictPopulate)
       THEN LET threw == refThrows(h, fr.docs, byDoc, modelCache, parsed)
            IN Outcome(IF threw THEN "finally" ELSE "nested",
                       IF threw THEN "TransformError" ELSE "none",
                       assignRef(h, fr.docs, byDoc, modelCache, parsed, 1),
                       byDoc, << >>, ids, unc)
     ELSE IF ~getModel(parsed.modelName).found
       THEN Outcome("finally", "ModelNotFound", h, byDoc, << >>, ids, unc)
     ELSE Outcome("await", "none", h, byDoc,
                  << [model |-> parsed.modelName, field |-> "_id", ids |-> unc,
                      match |-> parsed.options.match] >>, ids, unc)

\* populateVirtual up to the fetch.
resolveVirtual(h, fr, parsed) ==
  LET byDoc == localValuesByDoc(h, fr.docs, parsed.localField)
      lvs == localValues(byDoc, 1)
  IN IF parsed.modelName = "none" \/ parsed.foreignField = "none"
       THEN Outcome("nested", "none", h, << >>, << >>, << >>, << >>)
     ELSE IF lvs = << >> THEN Outcome("nested", "none", h, byDoc, << >>, lvs, << >>)
     ELSE IF ~getModel(parsed.modelName).found
       THEN IF parsed.options.strictPopulate
              THEN Outcome("finally", "ModelNotFound", h, byDoc, << >>, lvs, lvs)
              ELSE Outcome("nested", "none",
                           assignVirtual(h, fr.docs, byDoc, << >>, parsed, 1),
                           byDoc, << >>, lvs, lvs)
     ELSE Outcome("await", "none", h, byDoc,
                  << [model |-> parsed.modelName, field |-> parsed.foreignField,
                      ids |-> lvs, match |-> parsed.options.match] >>, lvs, lvs)

\* An unresolved path that throws whether or not strictPopulate is set.
resolveAlwaysStrict(h, fr, cache) ==
  LET parsed == Parsed(fr)
  IN IF parsed.modelName = "none" /\ ~parsed.isVirtual
       THEN Outcome("finally", "NoRef", h, << >>, << >>, << >>, << >>)
     ELSE IF parsed.isVirtual THEN resolveVirtual(h, fr, parsed)
     ELSE resolveRef(h, fr, parsed, cache)

\* populatePath after the circular check up to the fetch: the parse, the
\* unresolved case, and populateRef or populateVirtual.
resolve(h, fr, cache) ==
  LET parsed == Parsed(fr)
  IN IF parsed.modelName = "none" /\ ~parsed.isVirtual
       THEN Outcome("finally", IF fr.opt.strictPopulate THEN "NoRef" ELSE "none",
                    h, << >>, << >>, << >>, << >>)
     ELSE IF parsed.isVirtual THEN resolveVirtual(h, fr, parsed)
     ELSE resolveRef(h, fr, parsed, cache)

LogEntry(fr, kind, out) ==
  [path |-> fr.opt.path, top |-> fr.top, depth |-> Len(stack), kind |-> kind,
   parsed |-> Parsed(fr), docs |-> fr.docs,
   vals |-> [i \in 1..Len(fr.docs) |-> getNestedValue(heap, fr.docs[i], fr.opt.path)],
   cached |-> DOMAIN fetchedDocs[IF Parsed(fr).modelName \in ModelNames
                                   THEN Parsed(fr).modelName ELSE "Ghost"],
   ids |-> out.ids, uncached |-> out.uncached, err |-> out.err,
   ancestors |-> {stack[a].opt.path : a \in 1..(Len(stack) - 1)},
   opt |-> fr.opt, schema |-> fr.schema,
   parent |-> IF Len(stack) > 1 THEN stack[Len(stack) - 1].res ELSE 0,
   call |-> Self]

Kind(fr) ==
  LET parsed == Parsed(fr)
  IN IF parsed.modelName = "none" /\ ~parsed.isVirtual THEN "unresolved"
     ELSE IF parsed.isVirtual THEN "virtual" ELSE "direct"

\* No circular-reference check.
isCircularNever(path, active) == FALSE

\* The circular-reference check at the entry of populatePath.
isCircular(path, active) == path \in active

\* A circular return placed inside the try block: the finally block runs
\* and deletes the path.
circularReturnInTry(active, path) == active \ {path}

\* The return of the circular check: it precedes the try block, so the
\* finally block does not run and the set is left as it is.
circularReturn(active, path) == active

\* A finally block that does not delete the path.
deletePathNever(active, path) == active

\* context.populatingPaths.delete(pathKey) in the finally block.
deletePath(active, path) == active \ {path}

EnterPath ==
  /\ status = "running" /\ stack # << >> /\ Top.pc = "enter"
  /\ IF isCircular(Top.opt.path, populatingPaths)
       THEN /\ stack' = Pop
            /\ log' = Append(log, LogEntry(Top, "circular",
                        Outcome("return", "none", heap, << >>, << >>, << >>, << >>)))
            /\ populatingPaths' = circularReturn(populatingPaths, Top.opt.path)
            /\ UNCHANGED <<heap, err, finds>>
       ELSE LET out == resolve(heap, Top, fetchedDocs)
            IN /\ populatingPaths' = populatingPaths \cup {Top.opt.path}
               /\ heap' = out.heap
               /\ err' = out.err
               /\ stack' = [stack EXCEPT ![Len(stack)] =
                              [@ EXCEPT !.pc = out.pc, !.byDoc = out.byDoc,
                                        !.find = out.find, !.res = Len(log) + 1,
                                        !.fi = Len(finds) + 1]]
               /\ finds' = finds \o
                    [j \in 1..Len(out.find) |->
                       [model |-> out.find[j].model, field |-> out.find[j].field,
                        ids |-> out.find[j].ids, match |-> out.find[j].match,
                        path |-> Top.opt.path, top |-> Top.top,
                        depth |-> Len(stack), res |-> Len(log) + 1, call |-> Self,
                        result |-> [k |-> "pending"]]]
               /\ log' = Append(log, LogEntry(Top, Kind(Top), out))
  /\ UNCHANGED <<docs, paths, schema, status, populateOptions, pi, fetchedDocs, pre, undone, plain, suspended>>

\* populateRef or populateVirtual after the fetch returned the records fetched.
afterFetch(h, fr, fetched, cache) ==
  LET parsed == Parsed(fr)
  IN IF parsed.isVirtual
       THEN [heap |-> assignVirtual(h, fr.docs, fr.byDoc, fetched, parsed, 1),
             cache |-> cache,
             err |-> IF virtualThrows(h, fr.docs, fr.byDoc, fetched, parsed)
                       THEN "TransformError" ELSE "none"]
       ELSE LET modelCache == cacheFetched(h, cache[parsed.modelName], fetched)
            IN [heap |-> assignRef(h, fr.docs, fr.byDoc, modelCache, parsed, 1),
                cache |-> [cache EXCEPT ![parsed.modelName] = modelCache],
                err |-> IF refThrows(h, fr.docs, fr.byDoc, modelCache, parsed)
                          THEN "TransformError" ELSE "none"]

\* model.find resolves: the store's matching records arrive as new objects.
FindResolve ==
  /\ status = "running" /\ stack # << >> /\ Top.pc = "await"
  /\ LET q == Top.find[1]
         recs == StoreFindMatch(q.model, q.field, q.ids, q.match)
         h1 == heap \o [j \in 1..Len(recs) |-> Obj(StoreTracked(q.model), recs[j])]
         fetched == [j \in 1..Len(recs) |-> R(Len(heap) + j)]
         done == afterFetch(h1, Top, fetched, fetchedDocs)
     IN /\ heap' = done.heap
        /\ fetchedDocs' = done.cache
        /\ err' = done.err
        /\ log' = [log EXCEPT ![Top.res].err = done.err]
        /\ stack' = [stack EXCEPT ![Len(stack)].pc =
                       IF done.err = "none" THEN "nested" ELSE "finally"]
        /\ finds' = [finds EXCEPT ![Top.fi].result = L(fetched)]
  /\ UNCHANGED <<docs, paths, schema, status, populateOptions, pi,
                 populatingPaths, pre, undone, plain, suspended>>

\* model.find rejects and the rejection is not caught: populateRef fails.
FindRejectUncaught ==
  /\ status = "running" /\ stack # << >> /\ Top.pc = "await"
  /\ err' = "FetchFailure"
  /\ stack' = [stack EXCEPT ![Len(stack)].pc = "finally"]
  /\ finds' = [finds EXCEPT ![Top.fi].result = [k |-> "rejected"]]
  /\ UNCHANGED <<heap, docs, paths, schema, status, populateOptions, pi, fetchedDocs,
                 populatingPaths, log, pre, undone, plain, suspended>>

\* model.find rejects: fetchDocuments catches the error and returns [].
FindReject ==
  /\ status = "running" /\ stack # << >> /\ Top.pc = "await"
  /\ LET done == afterFetch(heap, Top, << >>, fetchedDocs)
     IN /\ heap' = done.heap
        /\ fetchedDocs' = done.cache
        /\ err' = done.err
        /\ log' = [log EXCEPT ![Top.res].err = done.err]
        /\ stack' = [stack EXCEPT ![Len(stack)].pc =
                       IF done.err = "none" THEN "nested" ELSE "finally"]
        /\ finds' = [finds EXCEPT ![Top.fi].result = [k |-> "rejected"]]
  /\ UNCHANGED <<docs, paths, schema, status, populateOptions, pi,
                 populatingPaths, pre, undone, plain, suspended>>

SpecTruthy(spec) == spec.k # "undefined" /\ ~(spec.k = "string" /\ spec.toks = <<"">>)

\* The nested requests of an activation.
nestedOptions(fr) ==
  IF SpecTruthy(fr.opt.populate) THEN normalizePopulateOptions(fr.opt.populate) ELSE << >>

RECURSIVE nextNested(_, _, _, _)
\* The next (document, nested request) of populatePath's nested loops from
\* position (di, ni) on: documents whose populated value is falsy are passed.
nextNested(h, fr, di, ni) ==
  IF di > Len(fr.docs) \/ nestedOptions(fr) = << >> THEN [done |-> TRUE]
  ELSE IF ni > Len(nestedOptions(fr)) THEN nextNested(h, fr, di + 1, 1)
  ELSE IF ni > 1 THEN [done |-> FALSE, di |-> di, ni |-> ni, sub |-> fr.sub]
  ELSE LET populatedValue == getNestedValue(h, fr.docs[di], fr.opt.path)
       IN IF ~Truthy(populatedValue) THEN nextNested(h, fr, di + 1, 1)
          ELSE [done |-> FALSE, di |-> di, ni |-> ni,
                sub |-> IF populatedValue.k = "list" THEN populatedValue.items
                        ELSE <<populatedValue>>]

\* Nested requests parsed against the schema the parent was parsed against.
nestedSchemaOfParent(model, parentSchema) == parentSchema

\* model?.schema: the schema handed to the recursive call is that of the
\* parent path's target model (undefined when there is no such model).
nestedSchema(model, parentSchema) == model.schema

\* populatePath's nested loops: the next recursive call, or their end.
NestedStep ==
  /\ status = "running" /\ err = "none" /\ stack # << >> /\ Top.pc = "nested"
  /\ LET nxt == nextNested(heap, Top, Top.di, Top.ni)
         model == getModel(Parsed(Top).modelName)
     IN IF nxt.done
          THEN stack' = [stack EXCEPT ![Len(stack)].pc = "finally"]
          ELSE stack' = Append(
                 [stack EXCEPT ![Len(stack)] =
                    [@ EXCEPT !.di = nxt.di, !.ni = nxt.ni + 1, !.sub = nxt.sub]],
                 Frame(nxt.sub, nestedOptions(Top)[nxt.ni].o,
                       nestedSchema(model, Top.schema), Top.top))
  /\ UNCHANGED <<heap, docs, paths, schema, status, err, populateOptions, pi,
                 fetchedDocs, populatingPaths, finds, log, pre, undone, plain, suspended>>

\* populatePath's finally block and return (or rethrow) to its caller.
ExitPath ==
  /\ status = "running" /\ stack # << >> /\ Top.pc = "finally"
  /\ populatingPaths' = deletePath(populatingPaths, Top.opt.path)
  /\ stack' = IF Len(stack) > 1 /\ err # "none"
                THEN [Pop EXCEPT ![Len(stack) - 1].pc = "finally"]
                ELSE Pop
  /\ status' = IF Len(stack) = 1 /\ err # "none" THEN "failed" ELSE status
  /\ UNCHANGED <<heap, docs, paths, schema, err, populateOptions, pi,
                 fetchedDocs, finds, log, pre, undone, plain, suspended>>

(***************************************************************************)
(* depopulate                                                              *)
(***************************************************************************)
RECURSIVE restoreAll(_, _, _)
\* The "all paths" loop of depopulate over the tracked paths ps of a document.
restoreAll(h, doc, ps) ==
  IF ps = {} THEN h
  ELSE LET p == CHOOSE x \in ps : TRUE
       IN restoreAll(setNestedValue(h, doc, p, h[doc.at].populated[p]), doc, ps \ {p})

\* A depopulate of one path that writes the entry back without checking
\* that there is one.
depopulateDocUnchecked(h, doc, path) ==
  IF doc.k # "ref" THEN h
  ELSE IF ~h[doc.at].tracked THEN h
  ELSE IF path # "none"
    THEN [setNestedValue(h, doc, path, h[doc.at].populated[path])
            EXCEPT ![doc.at].populated[path] = Undef]
    ELSE [restoreAll(h, doc, {p \in Fields : h[doc.at].populated[p] # Undef})
            EXCEPT ![doc.at].populated = NoFields]

\* depopulate for one document of docsArray.
depopulateDoc(h, doc, path) ==
  IF doc.k # "ref" THEN h
  ELSE IF ~h[doc.at].tracked THEN h
  ELSE IF path # "none"
    THEN LET originalId == h[doc.at].populated[path]
         IN IF originalId # Undef
              THEN [setNestedValue(h, doc, path, originalId)
                      EXCEPT ![doc.at].populated[path] = Undef]
              ELSE h
    ELSE [restoreAll(h, doc, {p \in Fields : h[doc.at].populated[p] # Undef})
            EXCEPT ![doc.at].populated = NoFields]

RECURSIVE depopulateDocs(_, _, _)
depopulateDocs(h, ds, path) ==
  IF ds = << >> THEN h
  ELSE depopulateDocs(depopulateDoc(h, Head(ds), path), Tail(ds), path)

\* The paths the call named at its top level.
TopPaths ==
  LET opts == normalizePopulateOptions(paths)
  IN {opts[i].o.path : i \in {j \in 1..Len(opts) : opts[j].k = "opt"}}

\* depopulate(docs, path) on the root documents or on the first of them,
\* for one of the paths of the call or for all paths (path absent); one
\* depopulate call is followed after the populate call.
depopulate ==
  /\ status \in {"returned", "failed"} /\ undone = {} /\ plain = NoPlain
  /\ \E n \in {1, Len(docs)}, path \in TopPaths \cup {"none"} :
       /\ n <= Len(docs)
       /\ heap' = depopulateDocs(heap, SubSeq(docs, 1, n), path)
       /\ undone' = undone \cup
            {<<i, p>> : i \in 1..n, p \in IF path = "none" THEN Fields ELSE {path}}
  /\ UNCHANGED <<docs, paths, schema, status, err, populateOptions, pi, stack,
                 fetchedDocs, populatingPaths, finds, log, pre, plain, suspended>>

(***************************************************************************)
(* isPopulated and the Document methods populated and depopulate           *)
(***************************************************************************)
\* isObjectId: an ObjectId object, or a string of 24 hex digits (the id
\* strings of the store stand for such strings).
isObjectId(value) == value.k \in {"oid", "str"}

\* typeof value === 'object' && value !== null
IsObject(value) == value.k \in {"oid", "list", "ref"}

\* The value-shape heuristic of isPopulated.
looksPopulated(h, doc, path) ==
  LET value == getNestedValue(h, doc, path)
  IN IF IsNullish(value) THEN FALSE
     ELSE IF value.k = "list" THEN Len(value.items) > 0 /\ IsObject(value.items[1])
     ELSE IsObject(value) /\ ~isObjectId(value)

\* The heuristic alone, the tracking map not consulted.
isPopulatedHeuristic(h, doc, path) == doc.k = "ref" /\ looksPopulated(h, doc, path)

\* isPopulated(doc, path)
isPopulated(h, doc, path) ==
  IF doc.k # "ref" THEN FALSE
  ELSE IF h[doc.at].tracked /\ h[doc.at].populated[path] # Undef THEN TRUE
  ELSE looksPopulated(h, doc, path)

\* Document.populated(path)
Document_populated(h, doc, path) == h[doc.at].populated[path]

\* A depopulate that restores the field and keeps the tracking entry.
Document_depopulateKeep(h, doc, path) ==
  IF path # "none"
    THEN LET originalId == h[doc.at].populated[path]
         IN IF originalId # Undef THEN setNestedValue(h, doc, path, originalId) ELSE h
    ELSE restoreAll(h, doc, {p \in Fields : h[doc.at].populated[p] # Undef})

\* Document.depopulate(path)
Document_depopulate(h, doc, path) ==
  IF path # "none"
    THEN LET originalId == h[doc.at].populated[path]
         IN IF originalId # Undef
              THEN [setNestedValue(h, doc, path, originalId)
                      EXCEPT ![doc.at].populated[path] = Undef]
              ELSE h
    ELSE [restoreAll(h, doc, {p \in Fields : h[doc.at].populated[p] # Undef})
            EXCEPT ![doc.at].populated = NoFields]

\* doc.depopulate(path) on one of the root documents that is a Document,
\* for one of the paths of the call or for all paths (path absent), as the
\* one depopulate call after the populate call.
DocumentDepopulate ==
  /\ status \in {"returned", "failed"} /\ undone = {} /\ plain = NoPlain
  /\ \E i \in 1..Len(docs), path \in TopPaths \cup {"none"} :
       /\ heap[docs[i].at].tracked
       /\ heap' = Document_depopulate(heap, docs[i], path)
       /\ undone' = undone \cup
            {<<i, p>> : p \in IF path = "none" THEN Fields ELSE {path}}
  /\ UNCHANGED <<docs, paths, schema, status, err, populateOptions, pi, stack,
                 fetchedDocs, populatingPaths, finds, log, pre, plain, suspended>>

\* Document._setNestedValue(obj, path, value)
Document_setNestedValue(h, obj, path, value) ==
  setNestedParts(h, obj, Segments(path), value)

RECURSIVE toObjectRestore(_, _, _, _)
\* The depopulate loop of toObject over the tracked paths ps of the document.
toObjectRestore(h, doc, obj, ps) ==
  IF ps = {} THEN h
  ELSE LET p == CHOOSE x \in ps : TRUE
       IN toObjectRestore(Document_setNestedValue(h, obj, p, h[doc.at].populated[p]),
                          doc, obj, ps \ {p})

\* Document.toObject({ depopulate }): obj is a new object with the
\* properties of _doc ({ ...this._doc }); with depopulate the original ids
\* of the tracked paths are written into obj.
Document_toObject(h, doc, depop) ==
  LET obj == R(Len(h) + 1)
      h1 == Append(h, Obj(FALSE, h[doc.at].f))
  IN [heap |-> IF depop
                 THEN toObjectRestore(h1, doc, obj,
                        {p \in Fields : h[doc.at].populated[p] # Undef})
                 ELSE h1,
      obj |-> obj]

\* doc.toObject({ depopulate: true }) on one of the root documents that is
\* a Document, after the populate call and in place of a depopulate call.
DocumentToObject ==
  /\ status \in {"returned", "failed"} /\ undone = {} /\ plain = NoPlain
  /\ \E i \in 1..Len(docs) :
       /\ heap[docs[i].at].tracked
       /\ LET out == Document_toObject(heap, docs[i], TRUE)
          IN /\ heap' = out.heap
             /\ plain' = [doc |-> i, obj |-> out.obj, depopulate |-> TRUE]
  /\ UNCHANGED <<docs, paths, schema, status, err, populateOptions, pi, stack,
                 fetchedDocs, populatingPaths, finds, log, pre, undone, suspended>>

Next ==
  \/ populate
  \/ populateLoop
  \/ EnterPath
  \/ FindResolve
  \/ FindReject
  \/ NestedStep
  \/ ExitPath
  \/ depopulate
  \/ DocumentDepopulate
  \/ DocumentToObject

Spec == Init /\ [][Next]_vars

(***************************************************************************)
(* Two populate calls on the same documents.  A call runs until it awaits  *)
(* a find; the other call may take its steps then.                         *)
(***************************************************************************)
\* A PopulationContext.
Context(cache, active) == [fetchedDocs |-> cache, populatingPaths |-> active]

\* One context for both calls: a call goes on with the context in use.
sharedContext(mine, current) == current

\* const context = { ... } in populate: the context is an object of the
\* call, so a call that goes on finds its own context as it left it.
ownContext(mine, current) == mine

\* The running call is suspended at a find (or has not started, or has
\* ended) and the other call takes over.
Switch ==
  /\ suspended.call # 0 /\ suspended.status \in {"idle", "running"}
  /\ status # "running" \/ (stack # << >> /\ Top.pc = "await")
  /\ LET context == ownContext(suspended.context, Context(fetchedDocs, populatingPaths))
     IN /\ fetchedDocs' = context.fetchedDocs
        /\ populatingPaths' = context.populatingPaths
  /\ suspended' = [call |-> Self, docs |-> docs, paths |-> paths, schema |-> schema,
                   status |-> status, err |-> err, populateOptions |-> populateOptions,
                   pi |-> pi, stack |-> stack,
                   context |-> Context(fetchedDocs, populatingPaths)]
  /\ docs' = suspended.docs
  /\ paths' = suspended.paths
  /\ schema' = suspended.schema
  /\ status' = suspended.status
  /\ err' = suspended.err
  /\ populateOptions' = suspended.populateOptions
  /\ pi' = suspended.pi
  /\ stack' = suspended.stack
  /\ UNCHANGED <<heap, finds, log, pre, undone, plain>>

\* The paths of the first and of the second call.
TwoCalls ==
  { <<Str(<<"author">>), Str(<<"author">>)>>,
    <<Str(<<"author">>), Str(<<"editor">>)>>,
    <<One("A"), Str(<<"author">>)>>,
    <<One("author>friend"), Str(<<"editor", "author">>)>> }

\* The heaps of n root documents, all Documents or all plain objects,
\* whose editor is user a and whose author is user a or an unknown user.
TwoCallDocs(n) ==
  {[i \in 1..n |-> Obj(tr, [BaseFields EXCEPT !["author"] = as[i], !["editor"] = S("a")])] :
     tr \in BOOLEAN, as \in [1..n -> TinyIds]}

InitTwo ==
  \E pair \in TwoCalls, n \in 1..MaxDocs :
    \E ds \in TwoCallDocs(n) :
      /\ heap = ds
      /\ docs = [i \in 1..n |-> R(i)]
      /\ paths = pair[1]
      /\ schema = "Post"
      /\ status = "idle"
      /\ err = "none"
      /\ populateOptions = << >>
      /\ pi = 1
      /\ stack = << >>
      /\ fetchedDocs = [m \in ModelNames |-> << >>]
      /\ populatingPaths = {}
      /\ finds = << >>
      /\ log = << >>
      /\ pre = ds
      /\ undone = {}
      /\ plain = NoPlain
      /\ suspended = [call |-> 2, docs |-> [i \in 1..n |-> R(i)], paths |-> pair[2],
                      schema |-> "Post", status |-> "idle", err |-> "none",
                      populateOptions |-> << >>, pi |-> 1, stack |-> << >>,
                      context |-> Context([m \in ModelNames |-> << >>], {})]

NextTwo ==
  \/ populate
  \/ populateLoop
  \/ EnterPath
  \/ FindResolve
  \/ FindReject
  \/ NestedStep
  \/ ExitPath
  \/ Switch

SpecTwo == InitTwo /\ [][NextTwo]_vars

(***************************************************************************)
(* Properties                                                              *)
(***************************************************************************)
SeqToSet(q) == {q[i] : i \in 1..Len(q)}

\* The find calls made by the i-th entry into populatePath.
FindsOf(i) == {j \in 1..Len(finds) : finds[j].res = i}

\* The activation of the i-th entry is still on the stack.
Live(i) == log[i].depth <= Len(stack) /\ stack[log[i].depth].res = i

\* No find of the i-th entry is still in flight.
Settled(i) == \A j \in FindsOf(i) : finds[j].result.k # "pending"

\* The raw ids a direct path's values held at entry i, and their distinct strings.
RawIdsAt(e) ==
  UNION { IF IsNullish(e.vals[d]) THEN {}
          ELSE IF e.parsed.isArray THEN SeqToSet(e.vals[d].items)
          ELSE {e.vals[d]} : d \in 1..Len(e.docs) }

DistinctIdsAt(e) ==
  { stringifyId(heap, v).v : v \in {w \in RawIdsAt(e) : stringifyId(heap, w) # NoString} }

\* The precondition of C1 at entry i: a top-level direct path, its model
\* registered, at least one id, none of them cached.
FreshDirect(i) ==
  /\ log[i].kind = "direct"
  /\ log[i].depth = 1
  /\ getModel(log[i].parsed.modelName).found
  /\ DistinctIdsAt(log[i]) # {}
  /\ DistinctIdsAt(log[i]) \cap log[i].cached = {}

\* C1: a top-level direct path whose raw values yield k >= 1 distinct ids,
\* none cached and the model registered, makes exactly one find, on the
\* target model, whose $in list is exactly those k ids, however many
\* documents were passed.
C1_OneBatchedFind ==
  \A i \in 1..Len(log) :
    FreshDirect(i) =>
      /\ Cardinality(FindsOf(i)) = 1
      /\ \A j \in FindsOf(i) :
           /\ finds[j].model = log[i].parsed.modelName
           /\ finds[j].field = "_id"
           /\ SeqToSet(finds[j].ids) = DistinctIdsAt(log[i])
           /\ Len(finds[j].ids) = Cardinality(DistinctIdsAt(log[i]))

\* Two documents naming the same user, once as a string and once as an
\* ObjectId, were populated with a single find for the one id.
C1_Witness ==
  /\ status = "returned"
  /\ \E i \in 1..Len(log) :
       /\ FreshDirect(i)
       /\ Len(log[i].docs) = 2
       /\ log[i].vals[1] # log[i].vals[2]
       /\ Cardinality(DistinctIdsAt(log[i])) = 1
       /\ Cardinality(FindsOf(i)) = 1

\* The top-level entries of the call that resolved path p.
TopEntries(p) ==
  {i \in 1..Len(log) : log[i].depth = 1 /\ log[i].path = p /\ log[i].kind # "circular"}

\* Path p was resolved once by the call, as a direct reference.
PopulatedOnceDirect(p) ==
  /\ Cardinality(TopEntries(p)) = 1
  /\ \A i \in TopEntries(p) : log[i].kind = "direct" /\ Settled(i) /\ ~Live(i)

\* C2 as stated: after populate then depopulate(doc, path) of a direct
\* path, the field of every document passed to populate holds its
\* pre-populate raw value again.
C2_RoundTripEveryDocument ==
  \A pair \in undone :
    PopulatedOnceDirect(pair[2]) =>
      getNestedValue(heap, R(pair[1]), pair[2]) = getNestedValue(pre, R(pair[1]), pair[2])

\* C2 amended: the same for every document that carries a tracking map
\* (a Document instance); a plain object is not restored.
C2_RoundTripTracked ==
  \A pair \in undone :
    (PopulatedOnceDirect(pair[2]) /\ heap[pair[1]].tracked) =>
      getNestedValue(heap, R(pair[1]), pair[2]) = getNestedValue(pre, R(pair[1]), pair[2])

\* A tracked document whose array of ids was resolved to records holds the
\* same array of ids again after depopulate.
C2_Witness ==
  \E pair \in undone :
    /\ PopulatedOnceDirect(pair[2])
    /\ heap[pair[1]].tracked
    /\ pre[pair[1]].f[pair[2]] = L(<<S("b"), S("a")>>)
    /\ getNestedValue(heap, R(pair[1]), pair[2]) = getNestedValue(pre, R(pair[1]), pair[2])
    /\ {"a", "b"} \subseteq DOMAIN fetchedDocs["User"]

\* populateRef wrote the field of document d of entry e.
WroteRef(e, d) == e.kind = "direct" /\ e.ids # << >> /\ ~IsNullish(e.vals[d])

\* populateVirtual wrote the field of document d of entry e.
WroteVirtual(e, d) ==
  /\ e.kind = "virtual" /\ e.ids # << >>
  /\ stringifyId(heap, getNestedValue(heap, e.docs[d], e.parsed.localField)) # NoString

\* C3: whenever justOne resolves to true, the value assigned to the field
\* is a single record or null, never a list (direct paths of either
\* cardinality, and virtual paths).
C3_JustOneNeverList ==
  \A i \in 1..Len(log) :
    (log[i].kind \in {"direct", "virtual"} /\ log[i].parsed.options.justOne = "true"
       /\ log[i].err = "none" /\ Settled(i) /\ Live(i)) =>
      \A d \in 1..Len(log[i].docs) :
        (WroteRef(log[i], d) \/ WroteVirtual(log[i], d)) =>
          getNestedValue(heap, log[i].docs[d], log[i].path).k # "list"

\* C4: after a virtual path is populated (justOne not true, no
\* perDocumentLimit, no error thrown by a transform), a record returned by the query is in a document's
\* list exactly when the document's stringified local value equals the
\* record's stringified foreign value.
C4_VirtualGrouping ==
  \A j \in 1..Len(finds) :
    LET e == log[finds[j].res]
    IN (e.kind = "virtual" /\ finds[j].result.k = "list" /\ Live(finds[j].res)
          /\ e.err = "none"
          /\ e.parsed.options.justOne # "true" /\ e.parsed.options.perDocumentLimit = 0) =>
         \A d \in 1..Len(e.docs), r \in SeqToSet(finds[j].result.items) :
           LET val == getNestedValue(heap, e.docs[d], e.path)
               lv == stringifyId(heap, getNestedValue(heap, e.docs[d], e.parsed.localField))
               fv == stringifyId(heap, getNestedValue(heap, r, e.parsed.foreignField))
           IN (val.k = "list" /\ r \in SeqToSet(val.items)) <=> (lv # NoString /\ lv = fv)

\* Two documents with different keys: the first received both of its
\* comments (one stored with a string key, one with an ObjectId key), the
\* second only its own.
C4_Witness ==
  \E j \in 1..Len(finds) :
    LET e == log[finds[j].res]
    IN /\ e.kind = "virtual" /\ finds[j].result.k = "list" /\ Live(finds[j].res)
       /\ e.parsed.options.justOne # "true" /\ e.parsed.options.perDocumentLimit = 0
       /\ Len(finds[j].result.items) = 3
       /\ Len(e.docs) = 2
       /\ getNestedValue(heap, e.docs[1], e.path).k = "list"
       /\ Len(getNestedValue(heap, e.docs[1], e.path).items) = 2
       /\ getNestedValue(heap, e.docs[2], e.path).k = "list"
       /\ Len(getNestedValue(heap, e.docs[2], e.path).items) = 1

\* The activation at stack position a has passed the circular check.
Active(a) == stack[a].pc # "enter"

\* C5: a path is never active twice on the resolution stack, and the
\* stack is never deeper than the active paths plus the one entry being
\* checked, so a request that nests itself (A -> B -> A) stops at the
\* inner entry into A.
C5_NoReentry ==
  /\ \A a, b \in 1..Len(stack) :
       (a < b /\ Active(a) /\ Active(b)) => stack[a].opt.path # stack[b].opt.path
  /\ populatingPaths = {stack[a].opt.path : a \in {b \in 1..Len(stack) : Active(b)}}
  /\ Len(stack) <= Cardinality(populatingPaths) + 1

\* The request A -> B -> A ran to its end: the third-level entry into
\* "author" was aborted as circular and the call returned.
C5_Witness ==
  /\ status = "returned"
  /\ paths = One("A")
  /\ \E i \in 1..Len(log) :
       log[i].kind = "circular" /\ log[i].path = "author" /\ log[i].depth = 3

\* C6: a request with the strict flag for which no target collection can
\* be resolved makes populate fail, so populate never returns after
\* entering one.
C6_StrictUnresolvedFails ==
  \A i \in 1..Len(log) :
    (log[i].kind # "circular" /\ log[i].parsed.modelName = "none"
       /\ log[i].parsed.options.strictPopulate) => status # "returned"

\* C7: an unresolvable path without the strict flag raises no error,
\* makes no find, and leaves the field of every document as it was.
C7_LenientUnresolvedSkipped ==
  \A i \in 1..Len(log) :
    (log[i].kind # "circular" /\ log[i].parsed.modelName = "none"
       /\ ~log[i].parsed.options.strictPopulate) =>
      /\ log[i].err = "none"
      /\ FindsOf(i) = {}
      /\ (Live(i) /\ Len(stack) = log[i].depth) => err = "none"
      /\ \A d \in 1..Len(log[i].docs) :
           getNestedValue(heap, log[i].docs[d], log[i].path) = log[i].vals[d]

\* populate returned after skipping an unresolvable path on two documents
\* that hold values there.
C7_Witness ==
  /\ status = "returned"
  /\ \E i \in 1..Len(log) :
       /\ log[i].kind # "circular" /\ log[i].parsed.modelName = "none"
       /\ ~log[i].parsed.options.strictPopulate
       /\ Len(log[i].docs) = 2
       /\ \A d \in 1..2 : getNestedValue(heap, log[i].docs[d], log[i].path) \in {S("a"), S("z")}

\* The find at position j was made by populateRef.
DirectFind(j) == log[finds[j].res].kind = "direct"

\* C8: within one call no id is sent twice to the same model's find by
\* direct-reference resolution.
C8_NoIdQueriedTwice ==
  \A a, b \in 1..Len(finds) :
    (a < b /\ DirectFind(a) /\ DirectFind(b) /\ finds[a].model = finds[b].model) =>
      SeqToSet(finds[a].ids) \cap SeqToSet(finds[b].ids) = {}

\* C9: each nested path of a request is resolved by one entry over all
\* the sub-documents, so it makes at most one find per call.
C9_OneFindPerNestedPath ==
  \A a, b \in 1..Len(finds) :
    (finds[a].depth >= 2 /\ finds[a].depth = finds[b].depth
       /\ finds[a].top = finds[b].top /\ finds[a].path = finds[b].path) => a = b

\* C10: a strict request whose target collection has no registered model
\* makes populate fail, so populate never returns after entering one.
C10_StrictMissingModelFails ==
  \A i \in 1..Len(log) :
    (log[i].kind \in {"direct", "virtual"} /\ log[i].parsed.options.strictPopulate
       /\ log[i].parsed.modelName # "none" /\ ~getModel(log[i].parsed.modelName).found) =>
      status # "returned"

\* The entry resolved to a model that is not registered, without the strict flag.
LenientMissingModel(e) ==
  /\ e.kind \in {"direct", "virtual"}
  /\ ~e.parsed.options.strictPopulate
  /\ e.parsed.modelName # "none"
  /\ ~getModel(e.parsed.modelName).found

\* Every top-level request that is not skipped has been handed to populatePath.
AllRequestsEntered ==
  \A k \in 1..Len(populateOptions) :
    (populateOptions[k].k = "opt" /\ ~populateOptions[k].o.skip) =>
      \E i \in 1..Len(log) : log[i].top = k /\ log[i].depth = 1

\* C11: in lenient mode a path whose target model is not registered is
\* skipped: no error, the field of every document keeps its pre-call value,
\* and populate returns with the other requests resolved.
C11_LenientMissingModelSkipped ==
  \A i \in 1..Len(log) :
    LenientMissingModel(log[i]) =>
      /\ log[i].err = "none"
      /\ status = "returned" => AllRequestsEntered
      /\ \A d \in 1..Len(log[i].docs) :
           getNestedValue(heap, log[i].docs[d], log[i].path) = log[i].vals[d]

\* A find of entry i was rejected by the store.
Rejected(i) == \E j \in FindsOf(i) : finds[j].result.k = "rejected"

\* The strings of the raw ids document d of entry e held at the path.
DocIdStrings(e, d) ==
  IF IsNullish(e.vals[d]) THEN {}
  ELSE { stringifyId(heap, v).v :
           v \in {w \in (IF e.parsed.isArray THEN SeqToSet(e.vals[d].items) ELSE {e.vals[d]}) :
                    stringifyId(heap, w) # NoString} }

\* C12: a rejected find does not fail populate: the entry raises no error,
\* its documents (those with no id cached before) receive null or an empty
\* list, a failed call never carries the store's rejection, and a call
\* that returns has resolved every requested path.
C12_FindRejectionCaught ==
  /\ \A i \in 1..Len(log) :
       (Rejected(i) /\ log[i].parsed.options.transform = "none") =>
         /\ log[i].err = "none"
         /\ (Live(i) /\ Len(stack) = log[i].depth) => err = "none"
         /\ Live(i) =>
              \A d \in 1..Len(log[i].docs) :
                ((WroteRef(log[i], d) /\ DocIdStrings(log[i], d) \cap log[i].cached = {})
                   \/ WroteVirtual(log[i], d)) =>
                  getNestedValue(heap, log[i].docs[d], log[i].path) \in {Null, L(<< >>)}
  /\ status = "failed" => (err = "TypeError" \/ \E i \in 1..Len(log) : log[i].err = err)
  /\ status = "returned" => AllRequestsEntered

\* The find of the first of two requested paths was rejected, its field is
\* null, and the second path was resolved to a record all the same.
C12_Witness ==
  /\ status = "returned"
  /\ Len(populateOptions) = 2
  /\ \E i, k \in 1..Len(log) :
       /\ log[i].top = 1 /\ Rejected(i)
       /\ getNestedValue(heap, log[i].docs[1], log[i].path) = Null
       /\ log[k].top = 2 /\ log[k].kind = "direct"
       /\ getNestedValue(heap, log[k].docs[1], log[k].path).k = "ref"

\* The string ids the model cache held when entry i assigned: those cached
\* at its entry and those of the records its find returned.
ResolvedAt(i) ==
  log[i].cached \cup
    UNION { { stringifyId(heap, getNestedValue(heap, r, "_id")).v :
                r \in {x \in SeqToSet(finds[j].result.items) :
                         stringifyId(heap, getNestedValue(heap, x, "_id")) # NoString} } :
            j \in {f \in FindsOf(i) : finds[f].result.k = "list"} }

\* Entry i had a record to hand to the transform of its request: a cached
\* record for an id of one of its documents (direct), or a returned record
\* whose foreign value is the local value of one of its documents (virtual).
HandsRecord(i) ==
  LET e == log[i]
  IN /\ Settled(i)
     /\ \/ /\ e.kind = "direct" /\ e.err # "ModelNotFound"
            /\ \E d \in 1..Len(e.docs) :
                 DocIdStrings(e, d) \cap ResolvedAt(i) # {}
        \/ /\ e.kind = "virtual"
            /\ \E j \in FindsOf(i) :
                 /\ finds[j].result.k = "list"
                 /\ \E d \in 1..Len(e.docs), r \in SeqToSet(finds[j].result.items) :
                      LET lv == stringifyId(heap, getNestedValue(heap, e.docs[d], e.parsed.localField))
                          fv == stringifyId(heap, getNestedValue(heap, r, e.parsed.foreignField))
                      IN lv # NoString /\ lv = fv

\* C13: a transform that throws while a record is assigned fails the
\* call with that error, with and without the strict flag: the error is in
\* flight until the call has failed, and the call never returns.
C13_TransformErrorPropagates ==
  \A i \in 1..Len(log) :
    (log[i].parsed.options.transform = "throws" /\ log[i].kind \in {"direct", "virtual"}
       /\ HandsRecord(i)) =>
      /\ err = "TransformError"
      /\ status # "returned"
      /\ stack = << >> => status = "failed"

\* A lenient request over two documents whose transform threw on a fetched
\* record: the call failed with the transform's error.
C13_Witness ==
  /\ status = "failed" /\ err = "TransformError"
  /\ \E i \in 1..Len(log) :
       /\ log[i].parsed.options.transform = "throws"
       /\ ~log[i].parsed.options.strictPopulate
       /\ HandsRecord(i)
       /\ Len(log[i].docs) = 2

\* The finds that have not been answered yet.
Pending == {j \in 1..Len(finds) : finds[j].result.k = "pending"}

\* C14: top-level requests are resolved in the order given, each to
\* completion with its nested requests: entries and finds are ordered by
\* top-level request, a find is issued only when every earlier find has
\* been answered, and at most one find is outstanding.
C14_SequentialResolution ==
  /\ Cardinality(Pending) <= 1
  /\ \A a, b \in 1..Len(finds) :
       a < b => (finds[a].top <= finds[b].top /\ finds[a].result.k # "pending")
  /\ \A a, b \in 1..Len(log) : a < b => log[a].top <= log[b].top
  /\ \A a \in 1..Len(stack) : stack[a].top = stack[1].top

\* The first request made a find for itself and one for its nested
\* request, and only then the second request made its find.
C14_Witness ==
  /\ status = "returned"
  /\ Len(finds) = 3
  /\ finds[1].top = 1 /\ finds[1].depth = 1
  /\ finds[2].top = 1 /\ finds[2].depth = 2
  /\ finds[3].top = 2 /\ finds[3].depth = 1
  /\ Pending = {}

\* The raw ids of document d of entry e, in order.
RawIdSeq(e, d) == IF e.parsed.isArray THEN e.vals[d].items ELSE <<e.vals[d]>>

\* The string ids of document d of entry i that were resolved, in id order.
ExpectedIds(i, d) ==
  LET raw == RawIdSeq(log[i], d)
      strs == [j \in 1..Len(raw) |-> stringifyId(heap, raw[j])]
      kept == SelectSeq(strs, LAMBDA x : x # NoString /\ x.v \in ResolvedAt(i))
  IN [j \in 1..Len(kept) |-> kept[j].v]

\* v is a record whose _id is the string id.
IsRecordOf(v, id) ==
  v.k = "ref" /\ stringifyId(heap, getNestedValue(heap, v, "_id")) = S(id)

\* v is the list of the records of the ids, in order, and nothing else.
HoldsRecords(v, ids) ==
  /\ v.k = "list"
  /\ Len(v.items) = Len(ids)
  /\ \A j \in 1..Len(ids) : IsRecordOf(v.items[j], ids[j])

\* v is the record of the first id, or null when there is none.
HoldsFirst(v, ids) == IF ids = << >> THEN v = Null ELSE IsRecordOf(v, ids[1])

\* Entry i is a direct reference whose assignment has been made and whose
\* resolution is still in progress.
AssignedDirect(i) ==
  /\ log[i].kind = "direct" /\ log[i].err = "none"
  /\ log[i].parsed.options.transform = "none"
  /\ Settled(i) /\ Live(i)

\* C15 as stated: an array-cardinality field holds the resolved records of
\* its ids in id order, unresolved ids dropped; a single-cardinality field
\* holds the first resolved record or null.
C15_AssignedByCardinality ==
  \A i \in 1..Len(log) :
    AssignedDirect(i) =>
      \A d \in 1..Len(log[i].docs) :
        WroteRef(log[i], d) =>
          LET v == getNestedValue(heap, log[i].docs[d], log[i].path)
          IN IF log[i].parsed.isArray THEN HoldsRecords(v, ExpectedIds(i, d))
             ELSE HoldsFirst(v, ExpectedIds(i, d))

\* C15 amended: the same, except that a single-cardinality field of a
\* request with justOne: false holds the list of its resolved records.
C15_AssignedByCardinalityOrJustOneFalse ==
  \A i \in 1..Len(log) :
    AssignedDirect(i) =>
      \A d \in 1..Len(log[i].docs) :
        WroteRef(log[i], d) =>
          LET v == getNestedValue(heap, log[i].docs[d], log[i].path)
          IN IF log[i].parsed.isArray \/ log[i].parsed.options.justOne = "false"
               THEN HoldsRecords(v, ExpectedIds(i, d))
             ELSE HoldsFirst(v, ExpectedIds(i, d))

\* An array of three ids whose second has no record holds the records of
\* the first and the third, in that order.
C15_Witness ==
  \E i \in 1..Len(log) :
    /\ AssignedDirect(i) /\ log[i].parsed.isArray
    /\ \E d \in 1..Len(log[i].docs) :
         /\ log[i].vals[d] = L(<<O("a"), S("z"), S("b")>>)
         /\ ExpectedIds(i, d) = <<"a", "b">>
         /\ HoldsRecords(getNestedValue(heap, log[i].docs[d], log[i].path), <<"a", "b">>)

\* The tracking map of object x has an entry for path p.
HasEntry(x, p) == heap[x].tracked /\ heap[x].populated[p] # Undef

\* C16 as stated: a direct path that populate has overwritten on a document
\* has an entry in the document's tracking map until depopulate is called
\* for it, and isPopulated is true whenever an entry exists and is the
\* value-shape heuristic otherwise.
C16_TrackingEntryEveryDocument ==
  /\ \A i \in 1..Len(log) :
       (log[i].kind = "direct" /\ log[i].err = "none" /\ Settled(i)) =>
         \A d \in 1..Len(log[i].docs) :
           LET doc == log[i].docs[d]
           IN (WroteRef(log[i], d) /\ doc.k = "ref"
                 /\ <<doc.at, log[i].path>> \notin undone) =>
                HasEntry(doc.at, log[i].path)
  /\ \A x \in 1..Len(heap), p \in Fields :
       isPopulated(heap, R(x), p) = (HasEntry(x, p) \/ looksPopulated(heap, R(x), p))

\* C16 amended: the same for a document that carries a tracking map (a
\* Document instance); a plain object has no map and never an entry.
C16_TrackingEntryKept ==
  /\ \A i \in 1..Len(log) :
       (log[i].kind = "direct" /\ log[i].err = "none" /\ Settled(i)) =>
         \A d \in 1..Len(log[i].docs) :
           LET doc == log[i].docs[d]
           IN (WroteRef(log[i], d) /\ doc.k = "ref" /\ heap[doc.at].tracked
                 /\ <<doc.at, log[i].path>> \notin undone) =>
                HasEntry(doc.at, log[i].path)
  /\ \A x \in 1..Len(heap), p \in Fields :
       isPopulated(heap, R(x), p) = (HasEntry(x, p) \/ looksPopulated(heap, R(x), p))

\* A Document whose id had no record: the field is null, the heuristic says
\* no, the entry exists and isPopulated says yes.
C16_Witness ==
  /\ status = "returned"
  /\ \E x \in 1..Len(docs), p \in Fields :
       /\ HasEntry(x, p)
       /\ heap[x].f[p] = Null
       /\ ~looksPopulated(heap, R(x), p)
       /\ isPopulated(heap, R(x), p)

\* Path p was requested at the top level and resolved as a virtual join only.
VirtualOnly(p) ==
  /\ \E i \in 1..Len(log) : log[i].depth = 1 /\ log[i].path = p /\ log[i].kind = "virtual"
  /\ \A i \in 1..Len(log) :
       (log[i].depth = 1 /\ log[i].path = p /\ log[i].kind # "circular") =>
         log[i].kind = "virtual"

\* A step taken after the call has ended (a depopulate: the only steps
\* then) leaves the field and the tracking entry of every virtual path.
DepopulateKeepsVirtual ==
  status \in {"returned", "failed"} =>
    \A x \in 1..Len(docs), p \in Fields :
      VirtualOnly(p) =>
        /\ getNestedValue(heap', R(x), p) = getNestedValue(heap, R(x), p)
        /\ heap'[x].populated[p] = heap[x].populated[p]

\* C17: populating a virtual path records nothing in the tracking map, and
\* depopulate for a path populated as a virtual join changes neither the
\* field's value nor the tracking map.
C17_VirtualNotTracked ==
  /\ [](\A x \in 1..Len(docs), p \in Fields :
          VirtualOnly(p) => heap[x].populated[p] = Undef)
  /\ [][DepopulateKeepsVirtual]_vars

\* depopulate was called for a virtual path on a Document that still holds
\* its joined records there.
C17_Witness ==
  /\ status = "returned"
  /\ \E x \in 1..Len(docs), p \in Fields :
       /\ VirtualOnly(p) /\ heap[x].tracked
       /\ <<x, p>> \in undone
       /\ heap[x].f[p].k = "list" /\ Len(heap[x].f[p].items) = 2
       /\ heap[x].populated[p] = Undef

\* C18: populate on a non-empty document set with no path specification
\* normalizes to an empty request list and is a no-op: no error, no find,
\* the documents unchanged.
C18_AbsentPathsNoOp ==
  (paths = NoSpec /\ docs # << >> /\ status # "idle") =>
    /\ populateOptions = << >>
    /\ err = "none" /\ status # "failed"
    /\ finds = << >>
    /\ \A x \in 1..Len(docs) : heap[x] = pre[x]

\* The call overwrote path p of root document x as a direct reference, once.
PopulatedRoot(x, p) ==
  /\ Cardinality(TopEntries(p)) = 1
  /\ \A i \in TopEntries(p) :
       log[i].kind = "direct" /\ log[i].err = "none" /\ Settled(i) /\ WroteRef(log[i], x)

SharedByParents(sub, k) ==
  \E x, y \in 1..Len(docs) :
    /\ x # y
    /\ getNestedValue(heap, docs[x], populateOptions[k].o.path) = sub
    /\ getNestedValue(heap, docs[y], populateOptions[k].o.path) = sub

\* C20: when populate has returned (every find answered with records), a
\* sub-document shared by several parents holds, at a nested path that
\* held a resolvable id, the record of that id.
C20_SharedSubDocumentPopulated ==
  (status = "returned" /\ \A j \in 1..Len(finds) : finds[j].result.k = "list") =>
    \A i \in 1..Len(log) :
      (log[i].depth = 2 /\ log[i].kind = "direct" /\ log[i].err = "none"
         /\ ~log[i].parsed.isArray) =>
        \A d \in 1..Len(log[i].docs) :
          LET sub == log[i].docs[d]
              id == stringifyId(heap, log[i].vals[d])
          IN (sub.k = "ref" /\ SharedByParents(sub, log[i].top)
                /\ log[i].vals[d].k \in {"str", "oid"} /\ id.v \in ResolvedAt(i)) =>
               IsRecordOf(getNestedValue(heap, sub, log[i].path), id.v)

\* Document d of the top-level entry i was already populated at the path of
\* the entry: an earlier top-level entry of the same path resolved it as a
\* direct reference, and the field held its record (or records) at entry i.
AlreadyPopulated(i, d) ==
  /\ log[i].depth = 1 /\ log[i].kind = "direct"
  /\ \E k \in 1..(i - 1) :
       /\ log[k].depth = 1 /\ log[k].path = log[i].path /\ log[k].kind = "direct"
       /\ log[k].err = "none" /\ WroteRef(log[k], d)
  /\ \/ log[i].vals[d].k = "ref"
     \/ /\ log[i].vals[d].k = "list" /\ log[i].vals[d].items # << >>
        /\ \A j \in 1..Len(log[i].vals[d].items) : log[i].vals[d].items[j].k = "ref"

\* C21: populating a direct path that is already populated (the same path
\* listed twice) is idempotent: after the second resolution the field
\* still holds the record(s) it held, never null or an empty list.
C21_RepopulateIdempotent ==
  \A i \in 1..Len(log) :
    (log[i].err = "none" /\ Settled(i) /\ Live(i)) =>
      \A d \in 1..Len(log[i].docs) :
        AlreadyPopulated(i, d) =>
          getNestedValue(heap, log[i].docs[d], log[i].path) = log[i].vals[d]

\* v is a raw id as a document stores it: a string or an ObjectId.
IsRawId(v) == v.k \in {"str", "oid"}

\* C22: every value in a tracking map is a raw id or a list of raw ids,
\* never a resolved record or null, so that depopulate after populating
\* the same path twice restores the raw value the field held at first.
C22_TrackingHoldsRawIds ==
  /\ \A x \in 1..Len(heap), p \in Fields :
       HasEntry(x, p) =>
         LET v == heap[x].populated[p]
         IN \/ IsRawId(v)
            \/ v.k = "list" /\ \A j \in 1..Len(v.items) : IsRawId(v.items[j])
  /\ \A pair \in undone :
       (heap[pair[1]].tracked /\ TopEntries(pair[2]) # {}
          /\ \A i \in TopEntries(pair[2]) : log[i].kind = "direct" /\ Settled(i) /\ ~Live(i)) =>
         getNestedValue(heap, R(pair[1]), pair[2]) = getNestedValue(pre, R(pair[1]), pair[2])

\* Every record in the value v passes the match filter.
AllMatch(v, match) ==
  CASE v.k = "ref" -> Matches(heap[v.at].f, match)
    [] v.k = "list" ->
         \A j \in 1..Len(v.items) :
           v.items[j].k = "ref" => Matches(heap[v.items[j].at].f, match)
    [] OTHER -> TRUE

\* C23: every record assigned to a direct path whose request carries a
\* match filter passes that filter, also when an earlier path of the call
\* has cached the same id of the same model without the filter.
C23_AssignedRecordsMatch ==
  \A i \in 1..Len(log) :
    (log[i].kind = "direct" /\ log[i].parsed.options.match # NoMatch
       /\ log[i].err = "none" /\ Settled(i) /\ Live(i)) =>
      \A d \in 1..Len(log[i].docs) :
        WroteRef(log[i], d) =>
          AllMatch(getNestedValue(heap, log[i].docs[d], log[i].path),
                   log[i].parsed.options.match)

\* The path names of the activations that have passed the circular check.
StackPaths == {stack[a].opt.path : a \in {b \in 1..Len(stack) : Active(b)}}

\* C24: the active-path set is the set of path names on the resolution
\* stack: a path is in it from its entry to its exit, whether the
\* resolution completes, is skipped as unresolved or fails; an entry is
\* skipped as circular only when an enclosing resolution has the same path
\* name (a sibling of the same name is resolved), and the set is empty
\* when populate has returned or failed.
C24_ActivePathsAreStackPaths ==
  /\ populatingPaths = StackPaths
  /\ status \in {"idle", "returned", "failed"} => (populatingPaths = {} /\ stack = << >>)
  /\ \A i \in 1..Len(log) :
       (log[i].kind = "circular") <=> (log[i].path \in log[i].ancestors)

\* The first path was resolved and left, the second failed with an error
\* thrown inside its resolution, and no path is active after the failure.
C24_Witness ==
  /\ status = "failed" /\ err = "ModelNotFound"
  /\ Len(log) = 2
  /\ log[1].kind = "direct" /\ log[1].err = "none" /\ FindsOf(1) # {}
  /\ log[2].err = "ModelNotFound"
  /\ populatingPaths = {}

\* A step taken when the activation on top of the stack is entered for a
\* path name that is already active: no find, the field of every document
\* given to it and the active-path set as before.
CircularEntryFrame ==
  (status = "running" /\ stack # << >> /\ Top.pc = "enter"
     /\ Top.opt.path \in populatingPaths) =>
    /\ finds' = finds
    /\ populatingPaths' = populatingPaths
    /\ \A d \in 1..Len(Top.docs) :
         getNestedValue(heap', Top.docs[d], Top.opt.path)
           = getNestedValue(heap, Top.docs[d], Top.opt.path)

\* C25: an entry for a path name that is already active issues no query,
\* leaves the path's field on all its documents and leaves the active-path
\* set unchanged, so the path stays active for the outer resolution.
C25_CircularEntryNoEffect == [][CircularEntryFrame]_vars

\* The inner "friend" of author > friend > friend has just been skipped:
\* the record it was given still holds its raw id, no find was made for
\* it, and "friend" is still active for the enclosing resolution.
C25_Witness ==
  /\ log # << >>
  /\ LET e == log[Len(log)]
     IN /\ e.kind = "circular" /\ e.path = "friend"
        /\ Len(stack) = e.depth - 1 /\ Top.opt.path = "friend"
        /\ e.vals[1] = O("a")
        /\ getNestedValue(heap, e.docs[1], e.path) = O("a")
        /\ FindsOf(Len(log)) = {}
        /\ "friend" \in populatingPaths

\* The reference kind and cardinality populatePath acts on for an entry.
Descriptor(e) ==
  [kind |-> e.kind, isArray |-> e.parsed.isArray]

\* The request of entry e supplies both a local and a foreign field.
ExplicitFields(e) == e.opt.localField # "none" /\ e.opt.foreignField # "none"

\* The schema of entry e has a virtual with a foreign field under the path.
VirtualDeclared(e) ==
  /\ ~ExplicitFields(e) /\ e.schema # "none"
  /\ SchemaVirtual(e.schema, e.path).has
  /\ SchemaVirtual(e.schema, e.path).foreignField # "none"

\* The kind by the stated order; the last case is given by fallback.
KindByOrder(e, fallback) ==
  IF ExplicitFields(e) \/ VirtualDeclared(e) THEN [kind |-> "virtual", isArray |-> FALSE]
  ELSE IF e.schema # "none" /\ SchemaPath(e.schema, e.path).ref # "none"
    THEN [kind |-> "direct", isArray |-> FALSE]
  ELSE IF e.schema # "none" /\ SchemaPath(e.schema, e.path).itemRef # "none"
    THEN [kind |-> "direct", isArray |-> TRUE]
  ELSE fallback

\* The parts of the stated order on the fields and the target of a virtual.
VirtualAsStated(e) ==
  /\ ExplicitFields(e) =>
       (e.parsed.localField = e.opt.localField /\ e.parsed.foreignField = e.opt.foreignField)
  /\ VirtualDeclared(e) =>
       e.parsed.modelName = IF e.opt.model # "none" THEN e.opt.model
                            ELSE SchemaVirtual(e.schema, e.path).ref

\* C26 as stated: first match wins among explicit local and foreign field
\* (virtual, fields verbatim), schema virtual with a foreign field
\* (virtual, target the model override or else the virtual's ref), a path
\* type with a ref (direct single), an array of a type with a ref (direct
\* array); every other path is unresolved.
C26_KindFirstMatchWins ==
  \A i \in 1..Len(log) :
    log[i].kind # "circular" =>
      /\ Descriptor(log[i]) = KindByOrder(log[i], [kind |-> "unresolved", isArray |-> FALSE])
      /\ VirtualAsStated(log[i])

\* C26 amended: the same, except that a path matching none of the four
\* cases is a direct single reference to the request's model override when
\* the request has one, and unresolved only when it has none.
C26_KindFirstMatchWinsOrModel ==
  \A i \in 1..Len(log) :
    log[i].kind # "circular" =>
      /\ Descriptor(log[i]) =
           KindByOrder(log[i],
             IF log[i].opt.model # "none" THEN [kind |-> "direct", isArray |-> FALSE]
             ELSE [kind |-> "unresolved", isArray |-> FALSE])
      /\ VirtualAsStated(log[i])
      /\ (log[i].kind = "direct" /\ log[i].opt.model # "none") =>
           log[i].parsed.modelName = log[i].opt.model

\* A path the schema declares as plain, requested with a model override,
\* was resolved as a direct single reference: its id was queried in the
\* override's collection and its record assigned.
C26_Witness ==
  /\ status = "returned"
  /\ \E i \in 1..Len(log) :
       /\ log[i].opt.model = "User" /\ SchemaPath(log[i].schema, log[i].path) = PlainPath
       /\ ~ExplicitFields(log[i]) /\ ~VirtualDeclared(log[i])
       /\ log[i].kind = "direct"
       /\ \E j \in FindsOf(i) : finds[j].model = "User"
       /\ Len(log[i].docs) >= 1
       /\ getNestedValue(heap, log[i].docs[1], log[i].path).k = "ref"

\* Schema sch declares a reference under the path: a path type or an array
\* element type with a ref, or a virtual with a foreign field.
DeclaredIn(sch, path) ==
  /\ sch # "none"
  /\ \/ SchemaPath(sch, path).ref # "none"
     \/ SchemaPath(sch, path).itemRef # "none"
     \/ SchemaVirtual(sch, path).has /\ SchemaVirtual(sch, path).foreignField # "none"

\* The request itself names its target: a model, or a local and a foreign field.
RequestDeclares(o) ==
  o.model # "none" \/ (o.localField # "none" /\ o.foreignField # "none")

\* The schema of the model registered under the name, if there is one.
TargetSchema(name) == IF name \in Registered THEN name ELSE "none"

\* C27: a nested request is resolved against the schema of the model the
\* parent path targets, not the root schema: a nested entry (one that is
\* not skipped as circular) is a reference exactly when that schema or the
\* request itself declares it, whatever the root schema says of the name.
C27_NestedUsesTargetSchema ==
  \A i \in 1..Len(log) :
    (log[i].parent > 0 /\ log[i].kind # "circular") =>
      LET target == TargetSchema(log[log[i].parent].parsed.modelName)
      IN /\ log[i].schema = target
         /\ (log[i].kind \in {"direct", "virtual"})
              <=> (DeclaredIn(target, log[i].path) \/ RequestDeclares(log[i].opt))

\* Under "author" (target User) the nested "friend", which only the User
\* schema declares, received its record, and the nested "editor", which
\* only the root schema declares, was left unresolved.
C27_Witness ==
  /\ status = "returned" /\ schema = "Post"
  /\ \E i, k \in 1..Len(log) :
       /\ log[i].parent > 0 /\ log[i].path = "friend" /\ log[i].kind = "direct"
       /\ ~DeclaredIn("Post", "friend")
       /\ Len(log[i].docs) = 1
       /\ getNestedValue(heap, log[i].docs[1], "friend").k = "ref"
       /\ log[k].parent = log[i].parent /\ log[k].path = "editor"
       /\ log[k].kind = "unresolved" /\ DeclaredIn("Post", "editor")

\* C28: a request with skip: true is never resolved, at the top level or
\* nested under another path: no find is made for it and the field of
\* every document it would apply to is left as it was.
C28_SkipNeverResolved ==
  \A i \in 1..Len(log) :
    log[i].opt.skip =>
      /\ FindsOf(i) = {}
      /\ \A d \in 1..Len(log[i].docs) :
           getNestedValue(heap, log[i].docs[d], log[i].path) = log[i].vals[d]

\* The ids of the records the answered direct finds of call c returned
\* from model m, and those records.
RecordsOf(c, m) ==
  UNION { SeqToSet(finds[j].result.items) :
            j \in {f \in 1..Len(finds) :
                     /\ finds[f].call = c /\ finds[f].model = m
                     /\ finds[f].field = "_id" /\ finds[f].result.k = "list"} }

FetchedBy(c, m) ==
  { stringifyId(heap, getNestedValue(heap, r, "_id")).v : r \in RecordsOf(c, m) }

\* The context holds what call c itself has put there: the path names of
\* the activations of its own stack, and records its own finds returned.
OwnContext(c, context, activations) ==
  /\ context.populatingPaths =
       {activations[a].opt.path :
          a \in {b \in 1..Len(activations) : activations[b].pc # "enter"}}
  /\ \A m \in ModelNames :
       \A id \in DOMAIN context.fetchedDocs[m] :
         context.fetchedDocs[m][id] \in RecordsOf(c, m)

\* C29: two populate calls that interleave at their finds share no session
\* state: each call's context holds only its own active paths and the
\* records of its own finds, an entry is skipped as circular only for a
\* path name of its own call's stack, and the ids an entry finds cached
\* were all fetched by its own call.
C29_CallsShareNoSession ==
  /\ OwnContext(Self, Context(fetchedDocs, populatingPaths), stack)
  /\ OwnContext(suspended.call, suspended.context, suspended.stack)
  /\ \A i \in 1..Len(log) :
       /\ (log[i].kind = "circular") <=> (log[i].path \in log[i].ancestors)
       /\ log[i].kind = "direct" =>
            log[i].cached \subseteq FetchedBy(log[i].call, log[i].parsed.modelName)

\* Both calls populate "author" of the same document: the second call
\* entered the path while it was active in the first (whose find is still
\* pending), was not skipped, made its own find for the same id and got
\* its own record.
C29_Witness ==
  /\ Len(finds) = 2 /\ Len(log) = 2
  /\ finds[1].call = 1 /\ finds[2].call = 2
  /\ finds[1].path = "author" /\ finds[2].path = "author"
  /\ finds[1].ids = <<"a">> /\ finds[2].ids = <<"a">>
  /\ finds[1].result.k = "pending" /\ finds[2].result.k = "list"
  /\ log[2].kind = "direct"
  /\ suspended.call = 1 /\ "author" \in suspended.context.populatingPaths
  /\ "a" \in DOMAIN fetchedDocs["User"]
  /\ DOMAIN suspended.context.fetchedDocs["User"] = {}

\* A step that is a toObject({ depopulate: true }) call: the returned
\* object holds the original id(s) at every tracked path of the document,
\* and the document's value at the path and its tracking map are as before.
ToObjectFrame ==
  (plain = NoPlain /\ plain' # NoPlain /\ plain'.depopulate) =>
    LET x == plain'.doc
    IN /\ heap'[x].populated = heap[x].populated
       /\ \A p \in Fields :
            heap[x].populated[p] # Undef =>
              /\ getNestedValue(heap', plain'.obj, p) = heap[x].populated[p]
              /\ getNestedValue(heap', R(x), p) = getNestedValue(heap, R(x), p)

\* C30: toObject({ depopulate: true }) returns an object in which every
\* tracked path holds its original raw id(s), and leaves the document
\* unchanged: for every tracked path, dotted paths into nested objects
\* included, the document's field and its tracking map are as before.
C30_ToObjectLeavesDocument == [][ToObjectFrame]_vars

====
